---------------------------- MODULE Spec2Model ----------------------------
(***************************************************************************)
(* Shift store (local SQLite backend, remote spreadsheet backend) and the  *)
(* conversation layer of the shift bot.                                    *)
(*                                                                         *)
(* Texts are TLA+ strings; Chars gives the characters of each text of the  *)
(* bounded vocabulary as ASCII codes, and the parsers (strptime, float)    *)
(* and the comparisons (SQLite's BINARY collation) work on the characters. *)
(* The Russian words of the source are written in Latin letters:           *)
(*   nachalo = начало, konec = конец, vyruchka = выручка, chaj = чай,      *)
(*   chasy = часы, da = да, net = нет, d = д, n = н.                       *)
(* Money is an integer number of roubles; a profit is kept in units of     *)
(* 1/ProfitUnit rouble so that hours*220 and revenue*0.015 stay integers.  *)
(***************************************************************************)
EXTENDS Integers, Sequences, FiniteSets, TLC

(* ------------------------------ bounds -------------------------------- *)
\* sessions (chats) and direct callers that run concurrently
NumProcs == 2
\* store operations started in one behaviour of Spec
MaxOps == 3

Procs == 1..NumProcs

(* ------------------------------ texts --------------------------------- *)
Dates == {"01.03.2024", "02.03.2024"}

Chars(s) ==
    CASE s = "" -> << >>
      [] s = "01.03.2024" -> <<48, 49, 46, 48, 51, 46, 50, 48, 50, 52>>
      [] s = "02.03.2024" -> <<48, 50, 46, 48, 51, 46, 50, 48, 50, 52>>
      [] s = "1.3.2024" -> <<49, 46, 51, 46, 50, 48, 50, 52>>
      [] s = "15.02.2024" -> <<49, 53, 46, 48, 50, 46, 50, 48, 50, 52>>
      [] s = "31.12.2023" -> <<51, 49, 46, 49, 50, 46, 50, 48, 50, 51>>
      [] s = "31.02.2024" -> <<51, 49, 46, 48, 50, 46, 50, 48, 50, 52>>
      [] s = "00:00" -> <<48, 48, 58, 48, 48>>
      [] s = "22:00" -> <<50, 50, 58, 48, 48>>
      [] s = "06:00" -> <<48, 54, 58, 48, 48>>
      [] s = "09:30" -> <<48, 57, 58, 51, 48>>
      [] s = "25:00" -> <<50, 53, 58, 48, 48>>
      [] s = "23:59" -> <<50, 51, 58, 53, 57>>
      [] s = "0" -> <<48>>
      [] s = "1000" -> <<49, 48, 48, 48>>
      [] s = "2000" -> <<50, 48, 48, 48>>
      [] s = "500" -> <<53, 48, 48>>
      [] s = "-5" -> <<45, 53>>
      [] s = "abc" -> <<97, 98, 99>>
      [] s = "/add_shift" -> <<47, 97, 100, 100, 95, 115, 104, 105, 102, 116>>
      [] s = "da" -> <<100, 97>>
      [] s = "net" -> <<110, 101, 116>>
      [] s = "DA" -> <<68, 65>>
      [] s = "DA 10:15" -> <<68, 65, 32, 49, 48, 58, 49, 53>>
      [] s = "/start" -> <<47, 115, 116, 97, 114, 116>>
      [] s = "/help" -> <<47, 104, 101, 108, 112>>
      [] s = "/myid" -> <<47, 109, 121, 105, 100>>
      [] s = "/revenue" -> <<47, 114, 101, 118, 101, 110, 117, 101>>
      [] s = "/tips" -> <<47, 116, 105, 112, 115>>
      [] s = "/edit" -> <<47, 101, 100, 105, 116>>
      [] s = "/profit" -> <<47, 112, 114, 111, 102, 105, 116>>
      [] s = "/stats" -> <<47, 115, 116, 97, 116, 115>>
      [] s = "/export" -> <<47, 101, 120, 112, 111, 114, 116>>
      [] s = "chaj" -> <<99, 104, 97, 106>>
      [] s = "vyruchka" -> <<118, 121, 114, 117, 99, 104, 107, 97>>
      [] s = "31.12.2099" -> <<51, 49, 46, 49, 50, 46, 50, 48, 57, 57>>
      [] s = "nachalo" -> <<110, 97, 99, 104, 97, 108, 111>>
      [] s = "NACHALO" -> <<78, 65, 67, 72, 65, 76, 79>>
      [] s = "01.11.2026" -> <<48, 49, 46, 49, 49, 46, 50, 48, 50, 54>>
      [] s = "2239" -> <<50, 50, 51, 57>>
      [] s = "2240" -> <<50, 50, 52, 48>>
      [] s = "4240" -> <<52, 50, 52, 48>>
      [] s = "4241" -> <<52, 50, 52, 49>>
      [] OTHER -> <<0>>

IsDigit(c) == c >= 48 /\ c <= 57

RECURSIVE DigitsValue(_)
DigitsValue(cs) ==
    IF cs = << >> THEN 0
    ELSE 10 * DigitsValue(SubSeq(cs, 1, Len(cs) - 1)) + (cs[Len(cs)] - 48)

AllDigits(cs) == Len(cs) > 0 /\ \A i \in 1..Len(cs) : IsDigit(cs[i])

\* the pieces of cs between occurrences of the separator
RECURSIVE Split(_, _)
Split(cs, sep) ==
    IF \A i \in 1..Len(cs) : cs[i] # sep THEN << cs >>
    ELSE LET k == CHOOSE i \in 1..Len(cs) :
                     cs[i] = sep /\ \A j \in 1..(i - 1) : cs[j] # sep
         IN  << SubSeq(cs, 1, k - 1) >> \o Split(SubSeq(cs, k + 1, Len(cs)), sep)

IsLeap(y) == (y % 4 = 0 /\ y % 100 # 0) \/ y % 400 = 0

DaysIn(m, y) ==
    IF m = 2 THEN (IF IsLeap(y) THEN 29 ELSE 28)
    ELSE IF m \in {4, 6, 9, 11} THEN 30 ELSE 31

NoDay == [ok |-> FALSE, d |-> 0, m |-> 0, y |-> 0]

\* the day of the calendar, NoDay when out of range
DayOf(d, m, y) ==
    IF m >= 1 /\ m <= 12 /\ d >= 1 /\ d <= DaysIn(m, y) /\ y >= 1
    THEN [ok |-> TRUE, d |-> d, m |-> m, y |-> y]
    ELSE NoDay

\* the day of the pieces between the dots
DayOfParts(parts) ==
    IF Len(parts) # 3 THEN NoDay
    ELSE IF ~(AllDigits(parts[1]) /\ Len(parts[1]) <= 2
              /\ AllDigits(parts[2]) /\ Len(parts[2]) <= 2
              /\ AllDigits(parts[3]) /\ Len(parts[3]) = 4) THEN NoDay
    ELSE DayOf(DigitsValue(parts[1]), DigitsValue(parts[2]), DigitsValue(parts[3]))

\* datetime.strptime(s, "%d.%m.%Y").date(): ok = FALSE stands for ValueError
ParseDate(s) == DayOfParts(Split(Chars(s), 46))

AllTexts ==
    {"", "01.03.2024", "02.03.2024", "1.3.2024", "15.02.2024", "31.12.2023",
     "31.02.2024", "00:00", "22:00", "06:00", "09:30", "25:00", "23:59", "0", "1000", "2000",
     "500", "-5", "abc", "/add_shift", "da", "net", "DA", "DA 10:15",
     "/start", "/help", "/myid", "/revenue", "/tips", "/edit", "/profit", "/stats",
     "/export", "chaj", "vyruchka", "31.12.2099", "nachalo", "NACHALO",
     "01.11.2026"}

Pad2(n) == << 48 + (n \div 10), 48 + (n % 10) >>

Pad4(n) ==
    << 48 + (n \div 1000), 48 + ((n \div 100) % 10),
       48 + ((n \div 10) % 10), 48 + (n % 10) >>

\* date_obj.strftime("%d.%m.%Y"): zero-padded day and month
FormatDate(day) ==
    LET cs == Pad2(day.d) \o <<46>> \o Pad2(day.m) \o <<46>> \o Pad4(day.y)
    IN  CHOOSE s \in AllTexts : Chars(s) = cs

\* the minute of the day, -1 when out of range
MinuteOf(h, mi) == IF h <= 23 /\ mi <= 59 THEN 60 * h + mi ELSE -1

\* the time of the pieces around the colon
MinuteOfParts(parts) ==
    IF Len(parts) # 2 THEN -1
    ELSE IF ~(AllDigits(parts[1]) /\ Len(parts[1]) <= 2
              /\ AllDigits(parts[2]) /\ Len(parts[2]) <= 2) THEN -1
    ELSE MinuteOf(DigitsValue(parts[1]), DigitsValue(parts[2]))

\* datetime.strptime(s, "%H:%M"): minutes since midnight, -1 for ValueError
ParseTime(s) == MinuteOfParts(Split(Chars(s), 58))

\* float(s) on the integer literals of the vocabulary: an optional sign, then
\* digits; ok = FALSE stands for ValueError
FloatOf(cs) ==
    LET signed == Len(cs) > 0 /\ cs[1] \in {43, 45}
        body == IF signed THEN SubSeq(cs, 2, Len(cs)) ELSE cs
    IN  IF AllDigits(body)
        THEN [ok |-> TRUE,
              val |-> IF signed /\ cs[1] = 45 THEN 0 - DigitsValue(body)
                      ELSE DigitsValue(body)]
        ELSE [ok |-> FALSE, val |-> 0]

\* float(s)
ParseFloat(s) == FloatOf(Chars(s))

\* the text as it was typed
AsTyped(s) == s

\* str.lower() on the vocabulary
Lower(s) ==
    CASE s = "CHAJ" -> "chaj"
      [] s = "NACHALO" -> "nachalo"
      [] s = "DA" -> "da"
      [] OTHER -> s

\* clean_user_input: the first whitespace-separated piece of the text, "" when
\* there is none
FirstPiece(text) ==
    LET parts == SelectSeq(Split(Chars(text), 32), LAMBDA piece : piece # << >>)
    IN  IF parts = << >> THEN ""
        ELSE CHOOSE s \in AllTexts : Chars(s) = parts[1]

\* clean_user_input on every text of the vocabulary
Cleaned == [text \in AllTexts |-> FirstPiece(text)]

CleanUserInput(text) == Cleaned[text]

\* a < b in SQLite's BINARY collation (bytewise, a proper prefix first)
RECURSIVE LexLess(_, _)
LexLess(a, b) ==
    IF b = << >> THEN FALSE
    ELSE IF a = << >> THEN TRUE
    ELSE IF a[1] # b[1] THEN a[1] < b[1]
    ELSE LexLess(Tail(a), Tail(b))

TextLeq(s, t) == s = t \/ LexLess(Chars(s), Chars(t))


(* -------------------------- profit calculator ------------------------- *)
HOURLY_RATE == 220
\* revenue_percentage = 0.015, as thousandths
REVENUE_PER_MILLE == 15
\* a profit p is kept as p * ProfitUnit
ProfitUnit == 60 * 50

\* the difference of the two times of day, without the overnight case
CalculateMinutesSameDay(start_time, end_time) ==
    ParseTime(end_time) - ParseTime(start_time)

\* _calculate_hours, in minutes (hours * 60); 0 when a time does not parse
CalculateMinutes(start_time, end_time) ==
    LET start == ParseTime(start_time)
        end == ParseTime(end_time)
    IN  IF start < 0 \/ end < 0 THEN 0
        ELSE IF end < start THEN (end + 24 * 60) - start
        ELSE end - start

\* float(str(x).replace(',', '.')) if x else 0
ToNumber(x) == IF x = "" THEN [ok |-> TRUE, val |-> 0] ELSE ParseFloat(x)

\* revenue + tips, the sum SQLite's get_profit returns
CalculateProfitFlat(start_time, end_time, revenue, tips) ==
    (ParseFloat(revenue).val + ParseFloat(tips).val) * ProfitUnit

\* _calculate_profit: (hours * 220) + tips + (revenue * 0.015), 0 on any error
CalculateProfit(start_time, end_time, revenue, tips) ==
    LET minutes == CalculateMinutes(start_time, end_time)
        revenue_val == ToNumber(revenue)
        tips_val == ToNumber(tips)
    IN  IF ~revenue_val.ok \/ ~tips_val.ok THEN 0
        ELSE minutes * HOURLY_RATE * (ProfitUnit \div 60)
             + tips_val.val * ProfitUnit
             + revenue_val.val * REVENUE_PER_MILLE * (ProfitUnit \div 1000)

(* --------------------------- return values ---------------------------- *)
\* b: the boolean (or "is not None"); v: the value, << >> for none
Ret(b, v) == [raised |-> FALSE, b |-> b, v |-> v]
Raise == [raised |-> TRUE, b |-> FALSE, v |-> << >>]
False == Ret(FALSE, << >>)
True == Ret(TRUE, << >>)
None == Ret(FALSE, << >>)
EmptyList == Ret(TRUE, << >>)

\* an except-all clause that returns the operation's negative result
ExceptPropagates(out, negative) == out

Except(out, negative) == IF out.raised THEN negative ELSE out

(* --------------------------- SQLite backend --------------------------- *)
\* The table shifts is a set of rows (id, created_at and updated_at are not
\* read by any operation and are left out).
DbRow(d, s, e, r, t) ==
    [date |-> d, start_time |-> s, end_time |-> e, revenue |-> r, tips |-> t]

\* INSERT into a table without the UNIQUE(date) constraint
InsertPlain(rows, d, s, e) == rows \cup {DbRow(d, s, e, 0, 0)}

\* INSERT OR REPLACE with UNIQUE(date): rows in conflict are deleted, the new
\* row takes the column defaults revenue = 0, tips = 0
InsertOrReplace(rows, d, s, e) ==
    {r \in rows : r.date # d} \cup {DbRow(d, s, e, 0, 0)}

\* DatabaseManager.add_shift; fail: the storage raises
DbAddShift(rows, d, s, e, fail) ==
    LET body == IF fail THEN [ret |-> Raise, rows |-> rows]
                ELSE [ret |-> True, rows |-> InsertOrReplace(rows, d, s, e)]
    IN  [ret |-> Except(body.ret, False),
         rows |-> IF body.ret.raised THEN rows ELSE body.rows]

field_mapping(f) ==
    CASE f = "nachalo" -> "start_time"
      [] f = "konec" -> "end_time"
      [] f = "vyruchka" -> "revenue"
      [] f = "chaj" -> "tips"
      [] OTHER -> ""

\* UPDATE shifts SET <db_field> = v, without the WHERE clause
UpdateEvery(rows, d, db_field, v) == {[r EXCEPT ![db_field] = v] : r \in rows}

\* UPDATE shifts SET <db_field> = v WHERE date = d
UpdateWhere(rows, d, db_field, v) ==
    {IF r.date = d THEN [r EXCEPT ![db_field] = v] ELSE r : r \in rows}

RowCount(rows, d) == Cardinality({r \in rows : r.date = d})

\* DatabaseManager.update_value
DbUpdateValue(rows, d, field, value, fail) ==
    LET db_field == field_mapping(Lower(field))
        num == ParseFloat(value)
        body ==
            IF db_field = "" THEN [ret |-> False, rows |-> rows]
            ELSE IF fail THEN [ret |-> Raise, rows |-> rows]
            ELSE IF db_field \in {"revenue", "tips"} /\ ~num.ok
                 THEN [ret |-> False, rows |-> rows]
            ELSE IF RowCount(rows, d) = 0 THEN [ret |-> False, rows |-> rows]
            ELSE [ret |-> True,
                  rows |-> UpdateWhere(rows, d, db_field,
                              IF db_field \in {"revenue", "tips"}
                              THEN num.val ELSE value)]
    IN  [ret |-> Except(body.ret, False),
         rows |-> IF body.ret.raised THEN rows ELSE body.rows]

\* DatabaseManager.get_profit: revenue + tips of the row, None without a row
DbGetProfit(rows, d, fail) ==
    LET body ==
            IF fail THEN Raise
            ELSE IF RowCount(rows, d) = 0 THEN None
            ELSE LET r == CHOOSE r \in rows : r.date = d
                 IN  Ret(TRUE, << (r.revenue + r.tips) * ProfitUnit >>)
    IN  Except(body, None)

\* DatabaseManager.check_shift_exists
DbCheckShiftExists(rows, d, fail) ==
    LET body == IF fail THEN Raise ELSE Ret(RowCount(rows, d) > 0, << >>)
    IN  Except(body, False)

\* WHERE date BETWEEN start_date AND end_date (text comparison)
Between(rows, start_date, end_date) ==
    {r \in rows : TextLeq(start_date, r.date) /\ TextLeq(r.date, end_date)}

\* ORDER BY date
RECURSIVE OrderByDate(_)
OrderByDate(rows) ==
    IF rows = {} THEN << >>
    ELSE LET first == CHOOSE r \in rows : \A q \in rows : TextLeq(r.date, q.date)
         IN  << first >> \o OrderByDate(rows \ {first})

\* DatabaseManager.get_shifts_in_period
DbGetShiftsInPeriod(rows, start_date, end_date, fail) ==
    LET body ==
            IF fail THEN Raise
            ELSE LET found == OrderByDate(Between(rows, start_date, end_date))
                 IN  Ret(TRUE,
                         [i \in 1..Len(found) |->
                             [date |-> found[i].date, start |-> found[i].start_time,
                              end |-> found[i].end_time,
                              revenue |-> found[i].revenue, tips |-> found[i].tips]])
    IN  Except(body, EmptyList)

RECURSIVE SumOf(_, _)
SumOf(rows, col) ==
    IF rows = {} THEN 0
    ELSE LET r == CHOOSE r \in rows : TRUE IN r[col] + SumOf(rows \ {r}, col)

\* DatabaseManager.get_statistics; an average is the pair sum / count
DbGetStatistics(rows, start_date, end_date, fail) ==
    LET body ==
            IF fail THEN Raise
            ELSE LET found == Between(rows, start_date, end_date)
                     n == Cardinality(found)
                     total_revenue == SumOf(found, "revenue")
                     total_tips == SumOf(found, "tips")
                 IN  IF n = 0 THEN None
                     ELSE Ret(TRUE,
                              << [shift_count |-> n,
                                  total_revenue |-> total_revenue,
                                  total_tips |-> total_tips,
                                  total_profit |-> total_revenue + total_tips,
                                  avg_revenue |-> [num |-> total_revenue, den |-> n],
                                  avg_tips |-> [num |-> total_tips, den |-> n],
                                  avg_profit |-> [num |-> total_revenue + total_tips,
                                                  den |-> n]] >>)
    IN  Except(body, None)

(* ------------------------- spreadsheet backend ------------------------ *)
\* The worksheet is the sequence of its data rows; a row maps the columns
\* A..G (date, start, end, revenue, tips, hours, profit) to cells.  A cell of
\* A..E holds the text entered, "" when empty; a cell of F or G holds << >>
\* when empty or << p >>, the number written by the profit recalculation.
TextCols == <<"A", "B", "C", "D", "E">>

SheetRow(a, b, c, d, e, f, g) ==
    [A |-> a, B |-> b, C |-> c, D |-> d, E |-> e, F |-> f, G |-> g]

\* worksheet.find(query): the row of the first cell, in row-major order,
\* whose value is the query; 0 for None.  No column is given to find, so
\* every cell is searched; a number of F or G never equals a date text.
Find(ws, query) ==
    LET hits == {i \in 1..Len(ws) : \E j \in 1..Len(TextCols) : ws[i][TextCols[j]] = query}
    IN  IF hits = {} THEN 0 ELSE CHOOSE i \in hits : \A k \in hits : i <= k

\* worksheet.update('<col><row>', [[value]])
UpdateCell(ws, row, col, value) == [ws EXCEPT ![row][col] = value]

\* worksheet.append_row(new_row)
AppendRow(ws, new_row) == Append(ws, new_row)

\* the well-formed entries of update_value's column_mapping (the entries for
\* the hours and profit columns are not valid Python and map nothing)
column_mapping(f) ==
    CASE f = "nachalo" -> "B"
      [] f = "konec" -> "C"
      [] f = "vyruchka" -> "D"
      [] f = "chaj" -> "E"
      [] OTHER -> ""

\* x.value if x.value else default
OrDefault(x, default) == IF x = "" THEN default ELSE x

(* ------------------------------- state -------------------------------- *)
VARIABLES
    storage_type,   \* the STORAGE_TYPE switch: "google_sheets" or "sqlite"
    backend,        \* the backend the store functions are bound to
    initialized,    \* GoogleSheetsManager.initialized
    db,             \* the rows of the SQLite table shifts
    sheet,          \* the data rows of the worksheet
    pc,             \* per process: "idle" or its place in a spreadsheet operation
    call,           \* per process: the locals of the operation in progress
    last,           \* the operation that returned last, with its result
    state,          \* per session: the FSM state, "" for none
    data,           \* per session: the FSM data (accumulated fields)
    out,            \* per session: the kind of the last reply sent
    confirmed,      \* history, per session: the date the running add-shift
                    \* dialogue has an affirmative overwrite answer for
    nops,           \* operations (Spec) or messages (SpecAddShift) so far
    calc            \* the arguments of a call of the profit calculator and,
                    \* once it has run, the hours (as minutes) and the profit;
                    \* in SpecExport the report text and the pieces answered;
                    \* in SpecReminder the last run of a reminder job

vars == << storage_type, backend, initialized, db, sheet, pc, call, last,
           state, data, out, confirmed, nops, calc >>

config == << storage_type, backend, initialized >>
session == << state, data, out, confirmed >>

NoCall ==
    [op |-> "", cont |-> "", date |-> "", a |-> "", b |-> "",
     fdate |-> "", row |-> 0, col |-> "",
     vB |-> "", vC |-> "", vD |-> "", vE |-> "", vG |-> << >>]

NewCall(op, cont, date, a, b) ==
    [NoCall EXCEPT !.op = op, !.cont = cont, !.date = date, !.a = a, !.b = b]

\* failed: the storage raised during the call; tick alternates, so that every
\* return changes last
Returned(p, c, ret, failed, tick) ==
    [proc |-> p, op |-> c.op, date |-> c.date, a |-> c.a, b |-> c.b,
     ret |-> ret, failed |-> failed, tick |-> tick]

DataKeys ==
    {"date", "start", "revenue_date", "tips_date", "edit_date", "edit_field",
     "stats_start", "export_start"}

\* a key that is not in the FSM data maps to Absent
Absent == "<absent>"
NoData == [k \in DataKeys |-> Absent]

\* main.py binds the store functions to the spreadsheet backend when
\* STORAGE_TYPE is google_sheets and its module loads, and to SQLite when the
\* module fails to load or when STORAGE_TYPE is anything else; the
\* spreadsheet manager is initialized when its credentials and sheet open.
Configured(st, be, ini) ==
    /\ be = "sheets" => st = "google_sheets"
    /\ ini => be = "sheets"

\* no call of the profit calculator on its own
NoCalc ==
    [start |-> "", end |-> "", revenue |-> "", tips |-> "", done |-> FALSE,
     minutes |-> 0, profit |-> 0]

\* nothing runs and no session has a state
NoSession ==
    /\ pc = [p \in Procs |-> "idle"]
    /\ call = [p \in Procs |-> NoCall]
    /\ last = Returned(0, NoCall, False, FALSE, FALSE)
    /\ state = [p \in Procs |-> ""]
    /\ data = [p \in Procs |-> NoData]
    /\ out = [p \in Procs |-> ""]
    /\ confirmed = [p \in Procs |-> Absent]

Idle == NoSession /\ nops = 0

Init ==
    /\ storage_type \in {"sqlite", "google_sheets"}
    /\ backend \in {"sqlite", "sheets"}
    /\ initialized \in BOOLEAN
    /\ Configured(storage_type, backend, initialized)
    /\ db = {}
    /\ sheet = << >>
    /\ Idle
    /\ calc = NoCalc

\* the tiers with the upper threshold counted to the high tier
ProfitTierExclusive(profit_float) ==
    IF profit_float < 4000 * ProfitUnit THEN "profit_low"
    ELSE IF profit_float < 6000 * ProfitUnit THEN "profit_middle"
    ELSE "profit_high"

\* the message process_profit_date picks for the profit, in ProfitUnit parts
\* of a rouble: < 4000, 4000 <= . <= 6000, else
ProfitTier(profit_float) ==
    IF profit_float < 4000 * ProfitUnit THEN "profit_low"
    ELSE IF 4000 * ProfitUnit <= profit_float /\ profit_float <= 6000 * ProfitUnit
         THEN "profit_middle"
    ELSE "profit_high"

(* ------------------------ after a store call ------------------------- *)
\* What the caller does with the value a store function returned: cont names
\* the handler that awaits it, "" for a direct call of the store interface.
Continue(cont, c, ret, st, dt, o) ==
    CASE cont = "process_date" ->
           \* exists: ask for the overwrite confirmation; else ask for the start
           [state |-> IF ret.b THEN "waiting_for_overwrite_confirm"
                      ELSE "waiting_for_start",
            data |-> [dt EXCEPT !.date = c.date],
            out |-> IF ret.b THEN "exists_overwrite?" ELSE "ask_start",
            next |-> NoCall]
      [] cont = "process_end" ->
           \* success or not, the reply is sent and the state is cleared
           [state |-> "", data |-> NoData,
            out |-> IF ret.b THEN "shift_added" ELSE "add_error",
            next |-> NoCall]
      [] cont \in {"process_revenue_date", "process_tips_date", "process_edit_date"} ->
           \* not found: the state is cleared; found: the date is kept and the
           \* next step asks for the amount (the field, in the edit pipeline)
           IF ~ret.b
           THEN [state |-> "", data |-> NoData, out |-> "not_found", next |-> NoCall]
           ELSE (CASE cont = "process_revenue_date" ->
                       [state |-> "waiting_for_revenue",
                        data |-> [dt EXCEPT !.revenue_date = c.date],
                        out |-> "ask_revenue", next |-> NoCall]
                   [] cont = "process_tips_date" ->
                       [state |-> "waiting_for_tips",
                        data |-> [dt EXCEPT !.tips_date = c.date],
                        out |-> "ask_tips", next |-> NoCall]
                   [] cont = "process_edit_date" ->
                       [state |-> "waiting_for_edit_field",
                        data |-> [dt EXCEPT !.edit_date = c.date],
                        out |-> "ask_field", next |-> NoCall])
      [] cont \in {"process_revenue", "process_tips", "process_edit_value"} ->
           [state |-> "", data |-> NoData,
            out |-> IF ret.b THEN "updated" ELSE "update_error",
            next |-> NoCall]
      [] cont = "process_profit_date" ->
           \* after check_shift_exists: not found clears the state, found goes
           \* on to get_profit
           IF ~ret.b
           THEN [state |-> "", data |-> NoData, out |-> "not_found", next |-> NoCall]
           ELSE [state |-> st, data |-> dt, out |-> o,
                 next |-> NewCall("get_profit", "process_profit_date.get_profit",
                                  c.date, "", "")]
      [] cont = "process_profit_date.get_profit" ->
           [state |-> "", data |-> NoData,
            out |-> IF ~ret.b THEN "no_profit_data" ELSE ProfitTier(ret.v[1]),
            next |-> NoCall]
      [] cont = "process_stats_end" ->
           [state |-> "", data |-> NoData,
            out |-> IF ~ret.b THEN "no_data" ELSE "statistics",
            next |-> NoCall]
      [] cont = "process_export_end" ->
           [state |-> "", data |-> NoData,
            out |-> IF ret.v = << >> THEN "no_data" ELSE "export",
            next |-> NoCall]
      [] OTHER -> [state |-> st, data |-> dt, out |-> o, next |-> NoCall]

\* History of the overwrite confirmation over one step of a session from FSM
\* state st to st2: given by the affirmative answer, kept while the dialogue
\* goes on to the start and end times, dropped otherwise.
Confirmation(st, st2, dt, conf) ==
    IF st = "waiting_for_overwrite_confirm" /\ st2 = "waiting_for_start" THEN dt.date
    ELSE IF {st, st2} \subseteq {"waiting_for_start", "waiting_for_end"} THEN conf
    ELSE Absent

\* the store function called by p with the locals c returns ret
Finish(p, c, ret, failed) ==
    LET k == Continue(c.cont, c, ret, state[p], data[p], out[p])
    IN  /\ last' = Returned(p, c, ret, failed, ~last.tick)
        /\ state' = [state EXCEPT ![p] = k.state]
        /\ data' = [data EXCEPT ![p] = k.data]
        /\ out' = [out EXCEPT ![p] = k.out]
        /\ confirmed' = [confirmed EXCEPT
                            ![p] = Confirmation(state[p], k.state, data[p], @)]
        /\ call' = [call EXCEPT ![p] = k.next]
        /\ pc' = [pc EXCEPT ![p] = IF k.next.op = "" THEN "idle" ELSE "call"]

\* p moves to the next storage step of its spreadsheet operation
Goto(p, label, c) ==
    /\ pc' = [pc EXCEPT ![p] = label]
    /\ call' = [call EXCEPT ![p] = c]
    /\ UNCHANGED << last, session >>

(* ------------------------- SQLite operations -------------------------- *)
\* One operation is one transaction: it runs in one step.
DbRun(p, c, fail) ==
    /\ backend = "sqlite"
    /\ LET w == CASE c.op = "add_shift" -> DbAddShift(db, c.date, c.a, c.b, fail)
                  [] c.op = "update_value" -> DbUpdateValue(db, c.date, c.a, c.b, fail)
                  [] OTHER -> [ret |-> False, rows |-> db]
           ret == CASE c.op \in {"add_shift", "update_value"} -> w.ret
                    [] c.op = "get_profit" -> DbGetProfit(db, c.date, fail)
                    [] c.op = "check_shift_exists" -> DbCheckShiftExists(db, c.date, fail)
                    [] c.op = "get_shifts_in_period" ->
                           DbGetShiftsInPeriod(db, c.date, c.a, fail)
                    [] c.op = "get_statistics" -> DbGetStatistics(db, c.date, c.a, fail)
       IN  /\ db' = w.rows
           /\ Finish(p, c, ret,
                     fail /\ ~(c.op = "update_value" /\ field_mapping(Lower(c.a)) = ""))
    /\ UNCHANGED sheet

(* ----------------------- spreadsheet operations ----------------------- *)
\* Every asyncio.to_thread call is one storage step; fail: the call raises,
\* and the method's except clause returns the negative result.  The first
\* step of a method (its checks and worksheet.find) takes the arguments c.
AtStep(p, label, op) == pc[p] = label /\ backend = "sheets" /\ call[p].op = op

Fails(p, c, negative) ==
    Finish(p, c, Except(Raise, negative), TRUE) /\ UNCHANGED sheet

Returns(p, c, ret) == Finish(p, c, ret, FALSE) /\ UNCHANGED sheet

\* a cell read: worksheet.cell(row, n).value into the local named by slot
ReadCell(p, from, op, negative, col, slot, to, fail) ==
    /\ AtStep(p, from, op)
    /\ IF fail THEN Fails(p, call[p], negative)
       ELSE /\ Goto(p, to, [call[p] EXCEPT ![slot] = sheet[call[p].row][col]])
            /\ UNCHANGED sheet
    /\ UNCHANGED << config, calc, db, nops >>

\* the storage steps of GoogleSheetsManager.add_shift on a worksheet ws
AsValid(c) == ParseDate(c.date).ok /\ ParseTime(c.a) >= 0 /\ ParseTime(c.b) >= 0

AsLocate(ws, c) ==
    LET formatted_date == FormatDate(ParseDate(c.date))
    IN  [c EXCEPT !.fdate = formatted_date, !.row = Find(ws, formatted_date)]

AsUpdateBC(ws, c) == UpdateCell(UpdateCell(ws, c.row, "B", c.a), c.row, "C", c.b)

AsUpdateG(ws, c) ==
    UpdateCell(ws, c.row, "G",
               << CalculateProfit(c.a, c.b, OrDefault(c.vD, "0"), OrDefault(c.vE, "0")) >>)

AsAppend(ws, c) ==
    AppendRow(ws, SheetRow(c.fdate, c.a, c.b, "", "",
                           << CalculateProfit(c.a, c.b, "", "") >>, << >>))

\* GoogleSheetsManager.add_shift: the checks and worksheet.find
AddShiftFind(p, c, fail) ==
    /\ backend = "sheets" /\ c.op = "add_shift"
    /\ IF ~initialized THEN Returns(p, c, False)
       ELSE IF ~AsValid(c) THEN Returns(p, c, False)
       ELSE IF fail THEN Fails(p, c, False)
       ELSE LET c2 == AsLocate(sheet, c)
            IN  /\ Goto(p, IF c2.row > 0 THEN "as_update_BC" ELSE "as_append", c2)
                /\ UNCHANGED sheet
    /\ UNCHANGED db

\* worksheet.update('B<row>:C<row>', [[start, end]])
AddShiftUpdateBC(p, fail) ==
    /\ AtStep(p, "as_update_BC", "add_shift")
    /\ LET c == call[p]
       IN  IF fail THEN Fails(p, c, False)
           ELSE /\ sheet' = AsUpdateBC(sheet, c)
                /\ Goto(p, "as_cell_D", c)
    /\ UNCHANGED << config, calc, db, nops >>

AddShiftCellD(p, fail) ==
    ReadCell(p, "as_cell_D", "add_shift", False, "D", "vD", "as_cell_E", fail)

AddShiftCellE(p, fail) ==
    ReadCell(p, "as_cell_E", "add_shift", False, "E", "vE", "as_update_G", fail)

\* the profit of the updated record goes to G<row>
AddShiftUpdateG(p, fail) ==
    /\ AtStep(p, "as_update_G", "add_shift")
    /\ LET c == call[p]
       IN  IF fail THEN Fails(p, c, False)
           ELSE /\ sheet' = AsUpdateG(sheet, c)
                /\ Finish(p, c, True, FALSE)
    /\ UNCHANGED << config, calc, db, nops >>

\* worksheet.append_row([formatted_date, start, end, '', '', profit])
AddShiftAppend(p, fail) ==
    /\ AtStep(p, "as_append", "add_shift")
    /\ LET c == call[p]
       IN  IF fail THEN Fails(p, c, False)
           ELSE /\ sheet' = AsAppend(sheet, c)
                /\ Finish(p, c, True, FALSE)
    /\ UNCHANGED << config, calc, db, nops >>

\* GoogleSheetsManager.update_value: the checks, worksheet.find, the column
UpdateValueFind(p, c, fail) ==
    /\ backend = "sheets" /\ c.op = "update_value"
    /\ LET day == ParseDate(c.date)
       IN  IF ~initialized THEN Returns(p, c, False)
           ELSE IF ~day.ok \/ fail THEN Fails(p, c, False)
           ELSE LET row == Find(sheet, FormatDate(day))
                    column == column_mapping(Lower(c.a))
                    c2 == [c EXCEPT !.fdate = FormatDate(day), !.row = row,
                                    !.col = column]
                IN  IF row = 0 \/ column = "" THEN Returns(p, c, False)
                    ELSE /\ Goto(p, "uv_update", c2)
                         /\ UNCHANGED sheet
    /\ UNCHANGED db

\* worksheet.update('<column><row>', [[value]]): the value as entered
UpdateValueUpdate(p, fail) ==
    /\ AtStep(p, "uv_update", "update_value")
    /\ LET c == call[p]
       IN  IF fail THEN Fails(p, c, False)
           ELSE /\ sheet' = UpdateCell(sheet, c.row, c.col, c.b)
                /\ Goto(p, "uv_cell_B", c)
    /\ UNCHANGED << config, calc, db, nops >>

UpdateValueCellB(p, fail) ==
    ReadCell(p, "uv_cell_B", "update_value", False, "B", "vB", "uv_cell_C", fail)

UpdateValueCellC(p, fail) ==
    ReadCell(p, "uv_cell_C", "update_value", False, "C", "vC", "uv_cell_D", fail)

UpdateValueCellD(p, fail) ==
    ReadCell(p, "uv_cell_D", "update_value", False, "D", "vD", "uv_cell_E", fail)

UpdateValueCellE(p, fail) ==
    ReadCell(p, "uv_cell_E", "update_value", False, "E", "vE", "uv_cell_F", fail)

\* the hours cell is read and not used
UpdateValueCellF(p, fail) ==
    /\ AtStep(p, "uv_cell_F", "update_value")
    /\ IF fail THEN Fails(p, call[p], False)
       ELSE Goto(p, "uv_update_F", call[p]) /\ UNCHANGED sheet
    /\ UNCHANGED << config, calc, db, nops >>

\* the recalculated profit goes to F<row>
UpdateValueUpdateF(p, fail) ==
    /\ AtStep(p, "uv_update_F", "update_value")
    /\ LET c == call[p]
           profit == CalculateProfit(OrDefault(c.vB, "00:00"), OrDefault(c.vC, "00:00"),
                                     OrDefault(c.vD, "0"), OrDefault(c.vE, "0"))
       IN  IF fail THEN Fails(p, c, False)
           ELSE /\ sheet' = UpdateCell(sheet, c.row, "F", << profit >>)
                /\ Finish(p, c, True, FALSE)
    /\ UNCHANGED << config, calc, db, nops >>

\* GoogleSheetsManager.get_profit: the checks and worksheet.find
GetProfitFind(p, c, fail) ==
    /\ backend = "sheets" /\ c.op = "get_profit"
    /\ LET day == ParseDate(c.date)
       IN  IF ~initialized THEN Returns(p, c, None)
           ELSE IF ~day.ok \/ fail THEN Fails(p, c, None)
           ELSE LET row == Find(sheet, FormatDate(day))
                    c2 == [c EXCEPT !.fdate = FormatDate(day), !.row = row]
                IN  IF row = 0 THEN Returns(p, c, None)
                    ELSE /\ Goto(p, "gp_cell_B", c2)
                         /\ UNCHANGED sheet
    /\ UNCHANGED db

GetProfitCellB(p, fail) ==
    ReadCell(p, "gp_cell_B", "get_profit", None, "B", "vB", "gp_cell_C", fail)

GetProfitCellC(p, fail) ==
    ReadCell(p, "gp_cell_C", "get_profit", None, "C", "vC", "gp_cell_D", fail)

GetProfitCellD(p, fail) ==
    ReadCell(p, "gp_cell_D", "get_profit", None, "D", "vD", "gp_cell_E", fail)

GetProfitCellE(p, fail) ==
    ReadCell(p, "gp_cell_E", "get_profit", None, "E", "vE", "gp_cell_F", fail)

GetProfitCellF(p, fail) ==
    /\ AtStep(p, "gp_cell_F", "get_profit")
    /\ IF fail THEN Fails(p, call[p], None)
       ELSE Goto(p, "gp_cell_G", call[p]) /\ UNCHANGED sheet
    /\ UNCHANGED << config, calc, db, nops >>

GetProfitOf(c) ==
    CalculateProfit(OrDefault(c.vB, "00:00"), OrDefault(c.vC, "00:00"),
                    OrDefault(c.vD, "0"), OrDefault(c.vE, "0"))

Abs(x) == IF x < 0 THEN 0 - x ELSE x

\* the profit cell is read; the profit is returned at once when the cell
\* holds it within 0.01
GetProfitCellG(p, fail) ==
    /\ AtStep(p, "gp_cell_G", "get_profit")
    /\ LET c == [call[p] EXCEPT !.vG = sheet[call[p].row].G]
           existing_profit == IF c.vG = << >> THEN 0 ELSE c.vG[1]
           profit == GetProfitOf(c)
       IN  IF fail THEN Fails(p, c, None)
           ELSE IF Abs(existing_profit - profit) * 100 > ProfitUnit
                THEN Goto(p, "gp_update_G", c) /\ UNCHANGED sheet
           ELSE Returns(p, c, Ret(TRUE, << profit >>))
    /\ UNCHANGED << config, calc, db, nops >>

GetProfitUpdateG(p, fail) ==
    /\ AtStep(p, "gp_update_G", "get_profit")
    /\ LET c == call[p]
           profit == GetProfitOf(c)
       IN  IF fail THEN Fails(p, c, None)
           ELSE /\ sheet' = UpdateCell(sheet, c.row, "G", << profit >>)
                /\ Finish(p, c, Ret(TRUE, << profit >>), FALSE)
    /\ UNCHANGED << config, calc, db, nops >>

\* GoogleSheetsManager.check_shift_exists
CheckShiftExistsFind(p, c, fail) ==
    /\ backend = "sheets" /\ c.op = "check_shift_exists"
    /\ LET day == ParseDate(c.date)
       IN  IF ~initialized THEN Returns(p, c, False)
           ELSE IF ~day.ok \/ fail THEN Fails(p, c, False)
           ELSE Returns(p, c, Ret(Find(sheet, FormatDate(day)) > 0, << >>))
    /\ UNCHANGED db

\* the store function bound in main.py is called with the arguments c and
\* runs to its first await
Invoke(p, c, fail) ==
    \/ DbRun(p, c, fail)
    \/ AddShiftFind(p, c, fail)
    \/ UpdateValueFind(p, c, fail)
    \/ GetProfitFind(p, c, fail)
    \/ CheckShiftExistsFind(p, c, fail)

SheetStep(p, fail) ==
    \/ AddShiftUpdateBC(p, fail)
    \/ AddShiftCellD(p, fail)
    \/ AddShiftCellE(p, fail)
    \/ AddShiftUpdateG(p, fail)
    \/ AddShiftAppend(p, fail)
    \/ UpdateValueUpdate(p, fail)
    \/ UpdateValueCellB(p, fail)
    \/ UpdateValueCellC(p, fail)
    \/ UpdateValueCellD(p, fail)
    \/ UpdateValueCellE(p, fail)
    \/ UpdateValueCellF(p, fail)
    \/ UpdateValueUpdateF(p, fail)
    \/ GetProfitCellB(p, fail)
    \/ GetProfitCellC(p, fail)
    \/ GetProfitCellD(p, fail)
    \/ GetProfitCellE(p, fail)
    \/ GetProfitCellF(p, fail)
    \/ GetProfitCellG(p, fail)
    \/ GetProfitUpdateG(p, fail)

StoreStep == \E p \in Procs, fail \in BOOLEAN : SheetStep(p, fail)

(* ----------------- direct calls of the store interface --------------- *)
ApiDates == Dates
ApiShifts == { << "22:00", "06:00" >>, << "06:00", "22:00" >> }
ApiFields == {"nachalo", "vyruchka", "chaj", "chasy"}
ApiValues == {"1000", "-5", "abc", "02.03.2024"}

Begin(p, c, fail) ==
    /\ pc[p] = "idle"
    /\ nops < MaxOps
    /\ nops' = nops + 1
    /\ Invoke(p, c, fail)
    /\ UNCHANGED << config, calc >>

CallAddShift(p, d, s, e, fail) ==
    Begin(p, NewCall("add_shift", "", d, s, e), fail)

CallUpdateValue(p, d, f, v, fail) ==
    Begin(p, NewCall("update_value", "", d, f, v), fail)

CallGetProfit(p, d, fail) == Begin(p, NewCall("get_profit", "", d, "", ""), fail)

CallCheckShiftExists(p, d, fail) ==
    Begin(p, NewCall("check_shift_exists", "", d, "", ""), fail)

\* statistics and export exist on the SQLite backend only
CallGetShiftsInPeriod(p, d1, d2, fail) ==
    Begin(p, NewCall("get_shifts_in_period", "", d1, d2, ""), fail)

CallGetStatistics(p, d1, d2, fail) ==
    Begin(p, NewCall("get_statistics", "", d1, d2, ""), fail)

ApiCall ==
    \E p \in Procs, d \in ApiDates, fail \in BOOLEAN :
        \/ \E se \in ApiShifts : CallAddShift(p, d, se[1], se[2], fail)
        \/ \E f \in ApiFields, v \in ApiValues : CallUpdateValue(p, d, f, v, fail)
        \/ CallGetProfit(p, d, fail)
        \/ CallCheckShiftExists(p, d, fail)
        \/ \E d2 \in ApiDates : CallGetShiftsInPeriod(p, d, d2, fail)
        \/ \E d2 \in ApiDates : CallGetStatistics(p, d, d2, fail)

Next == ApiCall \/ StoreStep

Spec == Init /\ [][Next]_vars

(* ------------------------ the conversation layer --------------------- *)
\* dialogue messages a session may receive in one behaviour of SpecAddShift
MaxMsgs == 8

\* the texts users send
Messages == {"/add_shift", "01.03.2024", "22:00", "06:00", "DA 10:15", "net", "abc"}

\* Command("add_shift"): the text starts with the command
IsCommand(text, command) == CleanUserInput(text) = command

\* the handlers in the order main.py registers them: a command handler takes
\* the texts of its command in every state, a state handler every text in its
\* state, echo every text
Registered ==
    << [name |-> "start_cmd", command |-> "/start", state |-> ""],
       [name |-> "show_my_id", command |-> "/myid", state |-> ""],
       [name |-> "help_cmd", command |-> "/help", state |-> ""],
       [name |-> "add_shift_start", command |-> "/add_shift", state |-> ""],
       [name |-> "process_date", command |-> "", state |-> "waiting_for_date"],
       [name |-> "process_overwrite_confirm", command |-> "",
        state |-> "waiting_for_overwrite_confirm"],
       [name |-> "process_start", command |-> "", state |-> "waiting_for_start"],
       [name |-> "process_end", command |-> "", state |-> "waiting_for_end"],
       [name |-> "revenue_start", command |-> "/revenue", state |-> ""],
       [name |-> "process_revenue_date", command |-> "",
        state |-> "waiting_for_revenue_date"],
       [name |-> "process_revenue", command |-> "", state |-> "waiting_for_revenue"],
       [name |-> "tips_start", command |-> "/tips", state |-> ""],
       [name |-> "process_tips_date", command |-> "", state |-> "waiting_for_tips_date"],
       [name |-> "process_tips", command |-> "", state |-> "waiting_for_tips"],
       [name |-> "edit_start", command |-> "/edit", state |-> ""],
       [name |-> "process_edit_date", command |-> "", state |-> "waiting_for_edit_date"],
       [name |-> "process_edit_field", command |-> "",
        state |-> "waiting_for_edit_field"],
       [name |-> "process_edit_value", command |-> "",
        state |-> "waiting_for_edit_value"],
       [name |-> "profit_start", command |-> "/profit", state |-> ""],
       [name |-> "process_profit_date", command |-> "",
        state |-> "waiting_for_profit_date"],
       [name |-> "stats_start", command |-> "/stats", state |-> ""],
       [name |-> "process_stats_start", command |-> "",
        state |-> "waiting_for_stats_start"],
       [name |-> "process_stats_end", command |-> "", state |-> "waiting_for_stats_end"],
       [name |-> "export_start", command |-> "/export", state |-> ""],
       [name |-> "process_export_start", command |-> "",
        state |-> "waiting_for_export_start"],
       [name |-> "process_export_end", command |-> "",
        state |-> "waiting_for_export_end"],
       [name |-> "echo", command |-> "", state |-> ""] >>

Accepts(h, st, text) ==
    IF h.command # "" THEN IsCommand(text, h.command)
    ELSE IF h.state # "" THEN st = h.state
    ELSE TRUE

\* the first registered handler that accepts the text in the FSM state st
FirstAccepting(st, text) ==
    LET accepting == {i \in 1..Len(Registered) : Accepts(Registered[i], st, text)}
        first == CHOOSE i \in accepting : \A j \in accepting : i <= j
    IN  Registered[first].name

\* the FSM states, "" for none, and the dispatch of every text in every state
States == {Registered[i].state : i \in 1..Len(Registered)}
Dispatch == [st \in States |-> [text \in AllTexts |-> FirstAccepting(st, text)]]
Handler(st, text) == Dispatch[st][text]

\* A session takes its next message when its handler of the previous one is
\* done; on SQLite a handler's two store calls run without a suspension in
\* between, so no message is taken while a handler is between them.
Receives(p) ==
    /\ pc[p] = "idle"
    /\ \A q \in Procs : backend = "sqlite" => pc[q] # "call"
    /\ nops < MaxMsgs
    /\ nops' = nops + 1
    /\ UNCHANGED << config, calc >>

\* the handler of the message p receives
Handles(p, text, name) == Handler(state[p], text) = name /\ Receives(p)

\* a handler that calls no store function: it replies and moves the session
Reply(p, st, dt, o) ==
    /\ state' = [state EXCEPT ![p] = st]
    /\ data' = [data EXCEPT ![p] = dt]
    /\ out' = [out EXCEPT ![p] = o]
    /\ confirmed' = [confirmed EXCEPT ![p] = Confirmation(state[p], st, data[p], @)]
    /\ UNCHANGED << db, sheet, pc, call, last >>

add_shift_start(p, text) ==
    /\ Handles(p, text, "add_shift_start")
    /\ Reply(p, "waiting_for_date", data[p], "ask_date")

process_date(p, text, fail) ==
    /\ Handles(p, text, "process_date")
    /\ LET clean_date == CleanUserInput(text)
       IN  IF ~ParseDate(clean_date).ok
           THEN ~fail /\ Reply(p, "", NoData, "bad_date")
           ELSE Invoke(p, NewCall("check_shift_exists", "process_date",
                                  clean_date, "", ""), fail)

process_overwrite_confirm(p, text) ==
    /\ Handles(p, text, "process_overwrite_confirm")
    /\ LET user_response == Lower(CleanUserInput(text))
       IN  IF user_response \in {"da", "yes", "y", "d"}
           THEN Reply(p, "waiting_for_start", data[p], "ask_start")
           ELSE IF user_response \in {"net", "no", "n"}
           THEN Reply(p, "", NoData, "cancelled")
           ELSE Reply(p, state[p], data[p], "answer_da_or_net")

\* a start step that takes every text as the start time
process_start_unchecked(p, text) ==
    /\ Handles(p, text, "process_start")
    /\ Reply(p, "waiting_for_end", [data[p] EXCEPT !.start = CleanUserInput(text)],
             "ask_end")

process_start(p, text) ==
    /\ Handles(p, text, "process_start")
    /\ LET clean_start == CleanUserInput(text)
       IN  IF ParseTime(clean_start) < 0
           THEN Reply(p, "", NoData, "bad_time")
           ELSE Reply(p, "waiting_for_end", [data[p] EXCEPT !.start = clean_start],
                      "ask_end")

process_end(p, text, fail) ==
    /\ Handles(p, text, "process_end")
    /\ LET end == CleanUserInput(text)
       IN  IF ParseTime(end) < 0
           THEN ~fail /\ Reply(p, "", NoData, "bad_time")
           ELSE Invoke(p, NewCall("add_shift", "process_end",
                                  data[p].date, data[p].start, end), fail)

\* /start, /help and /myid reply and leave the FSM context as it is
start_cmd(p, text) ==
    /\ Handles(p, text, "start_cmd")
    /\ Reply(p, state[p], data[p], "help")

show_my_id(p, text) ==
    /\ Handles(p, text, "show_my_id")
    /\ Reply(p, state[p], data[p], "my_id")

help_cmd(p, text) ==
    /\ Handles(p, text, "help_cmd")
    /\ Reply(p, state[p], data[p], "help")

revenue_start(p, text) ==
    /\ Handles(p, text, "revenue_start")
    /\ Reply(p, "waiting_for_revenue_date", data[p], "ask_date")

process_revenue_date(p, text, fail) ==
    /\ Handles(p, text, "process_revenue_date")
    /\ Invoke(p, NewCall("check_shift_exists", "process_revenue_date",
                         CleanUserInput(text), "", ""), fail)

process_revenue(p, text, fail) ==
    /\ Handles(p, text, "process_revenue")
    /\ LET rev == CleanUserInput(text)
       IN  IF ~ParseFloat(rev).ok
           THEN ~fail /\ Reply(p, "", NoData, "bad_number")
           ELSE Invoke(p, NewCall("update_value", "process_revenue",
                                  data[p].revenue_date, "vyruchka", rev), fail)

tips_start(p, text) ==
    /\ Handles(p, text, "tips_start")
    /\ Reply(p, "waiting_for_tips_date", data[p], "ask_date")

process_tips_date(p, text, fail) ==
    /\ Handles(p, text, "process_tips_date")
    /\ Invoke(p, NewCall("check_shift_exists", "process_tips_date",
                         CleanUserInput(text), "", ""), fail)

process_tips(p, text, fail) ==
    /\ Handles(p, text, "process_tips")
    /\ LET tips_amount == CleanUserInput(text)
       IN  IF ~ParseFloat(tips_amount).ok
           THEN ~fail /\ Reply(p, "", NoData, "bad_number")
           ELSE Invoke(p, NewCall("update_value", "process_tips",
                                  data[p].tips_date, "chaj", tips_amount), fail)

edit_start(p, text) ==
    /\ Handles(p, text, "edit_start")
    /\ Reply(p, "waiting_for_edit_date", data[p], "ask_date")

process_edit_date(p, text, fail) ==
    /\ Handles(p, text, "process_edit_date")
    /\ Invoke(p, NewCall("check_shift_exists", "process_edit_date",
                         CleanUserInput(text), "", ""), fail)

\* an edit-field step that keeps the session where it is on an unknown field
process_edit_field_again(p, text) ==
    /\ Handles(p, text, "process_edit_field")
    /\ LET field == Lower(CleanUserInput(text))
       IN  IF field \notin {"chaj", "nachalo", "konec", "vyruchka"}
           THEN Reply(p, state[p], data[p], "bad_field")
           ELSE Reply(p, "waiting_for_edit_value", [data[p] EXCEPT !.edit_field = field],
                      "ask_value")

\* an edit-field step that takes every field name
process_edit_field_unchecked(p, text) ==
    /\ Handles(p, text, "process_edit_field")
    /\ Reply(p, "waiting_for_edit_value",
             [data[p] EXCEPT !.edit_field = Lower(CleanUserInput(text))], "ask_value")

process_edit_field(p, text) ==
    /\ Handles(p, text, "process_edit_field")
    /\ LET field == Lower(CleanUserInput(text))
       IN  IF field \notin {"chaj", "nachalo", "konec", "vyruchka"}
           THEN Reply(p, "", NoData, "bad_field")
           ELSE Reply(p, "waiting_for_edit_value", [data[p] EXCEPT !.edit_field = field],
                      "ask_value")

process_edit_value(p, text, fail) ==
    /\ Handles(p, text, "process_edit_value")
    /\ Invoke(p, NewCall("update_value", "process_edit_value",
                         data[p].edit_date, data[p].edit_field,
                         CleanUserInput(text)), fail)

profit_start(p, text) ==
    /\ Handles(p, text, "profit_start")
    /\ Reply(p, "waiting_for_profit_date", data[p], "ask_date")

\* dt.today(): the day the messages arrive
Today == [ok |-> TRUE, d |-> 1, m |-> 11, y |-> 2026]

\* day > other on datetime.date
Later(day, other) ==
    \/ day.y > other.y
    \/ day.y = other.y /\ day.m > other.m
    \/ day.y = other.y /\ day.m = other.m /\ day.d > other.d

\* up to its first await: the date checks and check_shift_exists
process_profit_date(p, text, fail) ==
    /\ Handles(p, text, "process_profit_date")
    /\ LET clean_date == CleanUserInput(text)
           day == ParseDate(clean_date)
       IN  IF ~day.ok THEN ~fail /\ Reply(p, "", NoData, "bad_date")
           ELSE IF Later(day, Today) THEN ~fail /\ Reply(p, "", NoData, "not_yet")
           ELSE Invoke(p, NewCall("check_shift_exists", "process_profit_date",
                                  clean_date, "", ""), fail)

\* a handler goes on to its next store call
Resume(p, fail) ==
    /\ pc[p] = "call"
    /\ Invoke(p, call[p], fail)
    /\ UNCHANGED << config, calc, nops >>

stats_start(p, text) ==
    /\ Handles(p, text, "stats_start")
    /\ IF storage_type = "google_sheets"
       THEN Reply(p, state[p], data[p], "unavailable")
       ELSE Reply(p, "waiting_for_stats_start", data[p], "ask_start_date")

\* a start-date step that moves on without storing the date
process_stats_start_forgetful(p, text) ==
    /\ Handles(p, text, "process_stats_start")
    /\ IF ParseDate(CleanUserInput(text)).ok
       THEN Reply(p, "waiting_for_stats_end", data[p], "ask_end_date")
       ELSE Reply(p, "", NoData, "bad_date")

process_stats_start(p, text) ==
    /\ Handles(p, text, "process_stats_start")
    /\ LET clean_date == CleanUserInput(text)
       IN  IF ParseDate(clean_date).ok
           THEN Reply(p, "waiting_for_stats_end",
                      [data[p] EXCEPT !.stats_start = clean_date], "ask_end_date")
           ELSE Reply(p, "", NoData, "bad_date")

process_stats_end(p, text, fail) ==
    /\ Handles(p, text, "process_stats_end")
    /\ LET clean_date == CleanUserInput(text)
       IN  IF ParseDate(clean_date).ok
           THEN Invoke(p, NewCall("get_statistics", "process_stats_end",
                                  data[p].stats_start, clean_date, ""), fail)
           ELSE ~fail /\ Reply(p, "", NoData, "bad_date")

export_start(p, text) ==
    /\ Handles(p, text, "export_start")
    /\ IF storage_type = "google_sheets"
       THEN Reply(p, state[p], data[p], "unavailable")
       ELSE Reply(p, "waiting_for_export_start", data[p], "ask_start_date")

process_export_start(p, text) ==
    /\ Handles(p, text, "process_export_start")
    /\ LET clean_date == CleanUserInput(text)
       IN  IF ParseDate(clean_date).ok
           THEN Reply(p, "waiting_for_export_end",
                      [data[p] EXCEPT !.export_start = clean_date], "ask_end_date")
           ELSE Reply(p, "", NoData, "bad_date")

process_export_end(p, text, fail) ==
    /\ Handles(p, text, "process_export_end")
    /\ LET clean_date == CleanUserInput(text)
       IN  IF ParseDate(clean_date).ok
           THEN Invoke(p, NewCall("get_shifts_in_period", "process_export_end",
                                  data[p].export_start, clean_date, ""), fail)
           ELSE ~fail /\ Reply(p, "", NoData, "bad_date")

\* the last handler takes what no other handler accepts
echo(p, text) ==
    /\ Handles(p, text, "echo")
    /\ Reply(p, state[p], data[p], "unknown_command")

AddShiftDialogue ==
    \E p \in Procs, text \in Messages :
        \/ add_shift_start(p, text)
        \/ \E fail \in BOOLEAN : process_date(p, text, fail)
        \/ process_overwrite_confirm(p, text)
        \/ process_start(p, text)
        \/ \E fail \in BOOLEAN : process_end(p, text, fail)
        \/ echo(p, text)

\* the storage steps of the store functions the dialogue calls
AddShiftStoreStep ==
    \E p \in Procs, fail \in BOOLEAN :
        \/ AddShiftUpdateBC(p, fail)
        \/ AddShiftCellD(p, fail)
        \/ AddShiftCellE(p, fail)
        \/ AddShiftUpdateG(p, fail)
        \/ AddShiftAppend(p, fail)

NextAddShift == AddShiftDialogue \/ AddShiftStoreStep

SpecAddShift == Init /\ [][NextAddShift]_vars

(* --------------------------- every pipeline -------------------------- *)
\* the texts a user sends in a behaviour of SpecDialogue
Texts ==
    {"/start", "/myid", "/help", "/add_shift", "/revenue", "/tips", "/edit",
     "/profit", "/stats", "/export", "01.03.2024", "31.12.2099",
     "22:00", "DA 10:15", "net", "1000", "NACHALO"}

\* the messages of one behaviour of SpecDialogue
MaxTurns == 7

\* the store before the first message: empty, or holding the shift of
\* 01.03.2024 as add_shift leaves it
InitDialogue ==
    /\ storage_type \in {"sqlite", "google_sheets"}
    /\ backend \in {"sqlite", "sheets"}
    /\ initialized \in BOOLEAN
    /\ Configured(storage_type, backend, initialized)
    /\ \/ db = {} /\ sheet = << >>
       \/ /\ backend = "sqlite"
          /\ db = DbAddShift({}, "01.03.2024", "22:00", "06:00", FALSE).rows
          /\ sheet = << >>
       \/ /\ backend = "sheets" /\ initialized
          /\ db = {}
          /\ sheet = AsAppend(<< >>, AsLocate(<< >>, NewCall("add_shift", "", "01.03.2024",
                                                          "22:00", "06:00")))
    /\ NoSession
    /\ nops = MaxMsgs - MaxTurns
    /\ calc = NoCalc

\* the sessions that converse in a behaviour of SpecDialogue
Chats == {1}

\* an idle session takes one of the texts; its handler runs to its first await
Dialogue ==
    \E p \in Chats :
        \/ pc[p] = "idle" /\ \E text \in Texts : start_cmd(p, text)
        \/ pc[p] = "idle" /\ \E text \in Texts : show_my_id(p, text)
        \/ pc[p] = "idle" /\ \E text \in Texts : help_cmd(p, text)
        \/ pc[p] = "idle" /\ \E text \in Texts : add_shift_start(p, text)
        \/ pc[p] = "idle" /\ \E text \in Texts, fail \in BOOLEAN : process_date(p, text, fail)
        \/ pc[p] = "idle" /\ \E text \in Texts : process_overwrite_confirm(p, text)
        \/ pc[p] = "idle" /\ \E text \in Texts : process_start(p, text)
        \/ pc[p] = "idle" /\ \E text \in Texts, fail \in BOOLEAN : process_end(p, text, fail)
        \/ pc[p] = "idle" /\ \E text \in Texts : revenue_start(p, text)
        \/ pc[p] = "idle" /\ \E text \in Texts, fail \in BOOLEAN : process_revenue_date(p, text, fail)
        \/ pc[p] = "idle" /\ \E text \in Texts, fail \in BOOLEAN : process_revenue(p, text, fail)
        \/ pc[p] = "idle" /\ \E text \in Texts : tips_start(p, text)
        \/ pc[p] = "idle" /\ \E text \in Texts, fail \in BOOLEAN : process_tips_date(p, text, fail)
        \/ pc[p] = "idle" /\ \E text \in Texts, fail \in BOOLEAN : process_tips(p, text, fail)
        \/ pc[p] = "idle" /\ \E text \in Texts : edit_start(p, text)
        \/ pc[p] = "idle" /\ \E text \in Texts, fail \in BOOLEAN : process_edit_date(p, text, fail)
        \/ pc[p] = "idle" /\ \E text \in Texts : process_edit_field(p, text)
        \/ pc[p] = "idle" /\ \E text \in Texts, fail \in BOOLEAN : process_edit_value(p, text, fail)
        \/ pc[p] = "idle" /\ \E text \in Texts : profit_start(p, text)
        \/ pc[p] = "idle" /\ \E text \in Texts, fail \in BOOLEAN : process_profit_date(p, text, fail)
        \/ pc[p] = "idle" /\ \E text \in Texts : stats_start(p, text)
        \/ pc[p] = "idle" /\ \E text \in Texts : process_stats_start(p, text)
        \/ pc[p] = "idle" /\ \E text \in Texts, fail \in BOOLEAN : process_stats_end(p, text, fail)
        \/ pc[p] = "idle" /\ \E text \in Texts : export_start(p, text)
        \/ pc[p] = "idle" /\ \E text \in Texts : process_export_start(p, text)
        \/ pc[p] = "idle" /\ \E text \in Texts, fail \in BOOLEAN : process_export_end(p, text, fail)
        \/ pc[p] = "idle" /\ \E text \in Texts : echo(p, text)

NextDialogue ==
    \/ Dialogue
    \/ \E p \in Procs, fail \in BOOLEAN : Resume(p, fail)
    \/ StoreStep

SpecDialogue == InitDialogue /\ [][NextDialogue]_vars

(* ------------------------- the profit query -------------------------- *)
\* the texts a user sends in a behaviour of SpecProfit
ProfitTexts ==
    {"/profit", "/edit", "01.03.2024", "02.03.2024", "31.12.2099", "abc", "NACHALO"}

\* the messages of one behaviour of SpecProfit
ProfitTurns == 6

\* the store before the first message: empty, or holding the shift of
\* 01.03.2024 22:00-06:00 with a revenue (SQLite) or with tips (spreadsheet,
\* as update_value leaves the row) that put its profit around the thresholds
InitProfit ==
    /\ storage_type \in {"sqlite", "google_sheets"}
    /\ backend \in {"sqlite", "sheets"}
    /\ initialized \in BOOLEAN
    /\ Configured(storage_type, backend, initialized)
    /\ \/ db = {} /\ sheet = << >>
       \/ /\ backend = "sqlite"
          /\ \E r \in {3999, 4000, 6000, 6001} :
                db = {DbRow("01.03.2024", "22:00", "06:00", r, 0)}
          /\ sheet = << >>
       \/ /\ backend = "sheets" /\ initialized
          /\ db = {}
          /\ \E t \in {"2239", "2240", "4240", "4241"} :
                sheet = << SheetRow("01.03.2024", "22:00", "06:00", "", t,
                                    << CalculateProfit("22:00", "06:00", "", t) >>,
                                    << >>) >>
    /\ NoSession
    /\ nops = MaxMsgs - ProfitTurns
    /\ calc = NoCalc

\* the edit and the profit pipelines
ProfitDialogue ==
    \E p \in Chats :
        \/ pc[p] = "idle" /\ \E text \in ProfitTexts : edit_start(p, text)
        \/ pc[p] = "idle" /\ \E text \in ProfitTexts, fail \in BOOLEAN : process_edit_date(p, text, fail)
        \/ pc[p] = "idle" /\ \E text \in ProfitTexts : process_edit_field(p, text)
        \/ pc[p] = "idle" /\ \E text \in ProfitTexts, fail \in BOOLEAN : process_edit_value(p, text, fail)
        \/ pc[p] = "idle" /\ \E text \in ProfitTexts : profit_start(p, text)
        \/ pc[p] = "idle" /\ \E text \in ProfitTexts, fail \in BOOLEAN : process_profit_date(p, text, fail)

NextProfit ==
    \/ ProfitDialogue
    \/ \E p \in Procs, fail \in BOOLEAN : Resume(p, fail)
    \/ \E p \in Procs, fail \in BOOLEAN :
          \/ UpdateValueUpdate(p, fail)
          \/ UpdateValueCellB(p, fail)
          \/ UpdateValueCellC(p, fail)
          \/ UpdateValueCellD(p, fail)
          \/ UpdateValueCellE(p, fail)
          \/ UpdateValueCellF(p, fail)
          \/ UpdateValueUpdateF(p, fail)
          \/ GetProfitCellB(p, fail)
          \/ GetProfitCellC(p, fail)
          \/ GetProfitCellD(p, fail)
          \/ GetProfitCellE(p, fail)
          \/ GetProfitCellF(p, fail)
          \/ GetProfitCellG(p, fail)
          \/ GetProfitUpdateG(p, fail)

SpecProfit == InitProfit /\ [][NextProfit]_vars

(* ----------------------- the profit calculator ----------------------- *)
\* the times and the revenue / tips cell texts the calculator is given
CalcTimes == {"00:00", "06:00", "09:30", "22:00", "23:59"}
CalcAmounts == {"", "0", "500", "1000"}

InitCalc ==
    /\ storage_type \in {"sqlite", "google_sheets"}
    /\ backend \in {"sqlite", "sheets"}
    /\ initialized \in BOOLEAN
    /\ Configured(storage_type, backend, initialized)
    /\ db = {}
    /\ sheet = << >>
    /\ Idle
    /\ \E s \in CalcTimes, e \in CalcTimes, r \in CalcAmounts, ti \in CalcAmounts :
          calc = [NoCalc EXCEPT !.start = s, !.end = e, !.revenue = r, !.tips = ti]

\* _calculate_hours and _calculate_profit run on the arguments
Calculate ==
    /\ ~calc.done
    /\ calc' = [calc EXCEPT
                  !.done = TRUE,
                  !.minutes = CalculateMinutes(calc.start, calc.end),
                  !.profit = CalculateProfit(calc.start, calc.end,
                                             calc.revenue, calc.tips)]
    /\ UNCHANGED << config, db, sheet, pc, call, last, session, nops >>

SpecCalc == InitCalc /\ [][Calculate]_vars

(* ------------------------ concurrent add_shift ----------------------- *)
\* Two process_end handlers, each of its own chat, are at `await add_shift`
\* with the same date and not all the same times; the table is empty or holds a
\* shift.  Each call runs when the event loop takes it up.
InitUpsert ==
    /\ storage_type \in {"sqlite", "google_sheets"}
    /\ backend = "sqlite"
    /\ initialized = FALSE
    /\ db \in {{}, {DbRow("01.03.2024", "09:30", "23:59", 1000, 0)},
               {DbRow("02.03.2024", "09:30", "23:59", 0, 100)}}
    /\ sheet = << >>
    /\ \E d \in Dates, shift \in [Procs -> ApiShifts] :
          /\ \E p, q \in Procs : shift[p] # shift[q]
          /\ call = [p \in Procs |->
                        NewCall("add_shift", "process_end", d, shift[p][1], shift[p][2])]
          /\ data = [p \in Procs |-> [NoData EXCEPT !.date = d, !.start = shift[p][1]]]
    /\ pc = [p \in Procs |-> "call"]
    /\ last = Returned(0, NoCall, False, FALSE, FALSE)
    /\ state = [p \in Procs |-> "waiting_for_end"]
    /\ out = [p \in Procs |-> "ask_end"]
    /\ confirmed = [p \in Procs |-> Absent]
    /\ nops = 0
    /\ calc = NoCalc

NextUpsert == \E p \in Procs, fail \in BOOLEAN : Resume(p, fail)

SpecUpsert == InitUpsert /\ [][NextUpsert]_vars

(* ------------------------- the reminder jobs ------------------------- *)
\* sheets.has_shift_today(today) of the spreadsheet module, which is not
\* among the sources: the existence query of the store interface, on the
\* worksheet
has_shift_today(ws, today) == \E i \in 1..Len(ws) : ws[i].A = today

\* a job: today's date as text, the query, and the message when it is true
send_shift_reminder ==
    /\ LET today == FormatDate(Today)
       IN  calc' = [job |-> "send_shift_reminder", today |-> today,
                    sent |-> has_shift_today(sheet, today)]
    /\ UNCHANGED << config, db, sheet, pc, call, last, session, nops >>

send_evening_prompt ==
    /\ LET today == FormatDate(Today)
       IN  calc' = [job |-> "send_evening_prompt", today |-> today,
                    sent |-> has_shift_today(sheet, today)]
    /\ UNCHANGED << config, db, sheet, pc, call, last, session, nops >>

\* the messages of one behaviour of SpecReminder
ReminderTurns == 3

\* the store before the first job: empty, or holding a shift of today or of
\* another day as add_shift leaves it
InitReminder ==
    /\ storage_type \in {"sqlite", "google_sheets"}
    /\ backend \in {"sqlite", "sheets"}
    /\ initialized \in BOOLEAN
    /\ Configured(storage_type, backend, initialized)
    /\ \/ db = {} /\ sheet = << >>
       \/ \E d \in {"01.11.2026", "01.03.2024"} :
             \/ /\ backend = "sqlite"
                /\ db = DbAddShift({}, d, "22:00", "06:00", FALSE).rows
                /\ sheet = << >>
             \/ /\ backend = "sheets" /\ initialized
                /\ db = {}
                /\ sheet = AsAppend(<< >>, AsLocate(<< >>, NewCall("add_shift", "", d,
                                                                "22:00", "06:00")))
    /\ NoSession
    /\ nops = MaxMsgs - ReminderTurns
    /\ calc = NoCalc

\* the jobs fire while a session converses
NextReminder ==
    \/ send_shift_reminder
    \/ send_evening_prompt
    \/ \E p \in Chats, text \in {"/add_shift", "01.11.2026", "01.03.2024"} :
          \/ add_shift_start(p, text)
          \/ \E fail \in BOOLEAN : process_date(p, text, fail)

SpecReminder == InitReminder /\ [][NextReminder]_vars

(* ------------------------- the export report ------------------------- *)
\* The report text is given by its length; a piece of it by the positions
\* [from, to) it covers.  In SpecExport calc holds the length of the text and
\* the pieces answered so far.
CHUNK == 4000

\* text[i:j] on a text of len characters
Slice(len, i, j) ==
    [from |-> IF i < len THEN i ELSE len, to |-> IF j < len THEN j ELSE len]

\* slices that leave out the last character of every piece
ExportPartsGapped(len) ==
    [k \in 1..((len + CHUNK - 1) \div CHUNK) |->
        Slice(len, (k - 1) * CHUNK, (k - 1) * CHUNK + CHUNK - 1)]

\* [export_text[i:i+4000] for i in range(0, len(export_text), 4000)]
ExportParts(len) ==
    [k \in 1..((len + CHUNK - 1) \div CHUNK) |->
        Slice(len, (k - 1) * CHUNK, (k - 1) * CHUNK + CHUNK)]

\* the longest report text, in pieces
MaxChunks == 5

\* report texts of lengths around the multiples of the piece length
InitExport ==
    /\ storage_type = "sqlite"
    /\ backend = "sqlite"
    /\ initialized = FALSE
    /\ db = {}
    /\ sheet = << >>
    /\ Idle
    /\ \E n \in 0..MaxChunks, k \in 1..5 :
          /\ n * CHUNK + k - 3 > 0
          /\ calc = [len |-> n * CHUNK + k - 3, sent |-> << >>, done |-> FALSE]

\* one msg.answer of process_export_end: the next piece of a text longer than
\* 4000, the whole text otherwise
AnswerExport ==
    /\ ~calc.done
    /\ LET answers == IF calc.len > CHUNK THEN ExportParts(calc.len)
                      ELSE << Slice(calc.len, 0, calc.len) >>
           sent == Append(calc.sent, answers[Len(calc.sent) + 1])
       IN  calc' = [calc EXCEPT !.sent = sent, !.done = Len(sent) = Len(answers)]
    /\ UNCHANGED << config, db, sheet, pc, call, last, session, nops >>

SpecExport == InitExport /\ [][AnswerExport]_vars

(* ----------------------- the period reports -------------------------- *)
\* The reports read the SQLite table, which holds shifts of these dates, each
\* with a revenue and tips set by update_value.
ReportDates == {"31.12.2023", "15.02.2024", "01.03.2024"}

ReportRows ==
    {DbRow(d, "22:00", "06:00", rt[1], rt[2]) :
        d \in ReportDates, rt \in {<<1000, 100>>, <<2000, 200>>}}

InitReports ==
    /\ storage_type = "sqlite"
    /\ backend = "sqlite"
    /\ initialized = FALSE
    /\ db \in {rows \in SUBSET ReportRows :
                  \A r1, r2 \in rows : r1.date = r2.date => r1 = r2}
    /\ sheet = << >>
    /\ Idle
    /\ calc = NoCalc

NextReports ==
    \E p \in Procs, d1 \in ReportDates, d2 \in ReportDates, fail \in BOOLEAN :
        \/ CallGetShiftsInPeriod(p, d1, d2, fail)
        \/ CallGetStatistics(p, d1, d2, fail)

SpecReports == InitReports /\ [][NextReports]_vars

(* ======================== properties of the store ===================== *)
\* the step is the return of a store function
ReturnStep == last' # last

\* p starts a store function in this step; CallOf is the call: last' when the
\* function returned within the step, the locals of p otherwise
Starts(p) ==
    /\ pc[p] = "idle"
    /\ nops' = nops + 1
    /\ pc'[p] # "idle" \/ (last' # last /\ last'.proc = p)

CallOf(p) == IF pc'[p] = "idle" THEN last' ELSE call'[p]

\* p takes a storage step of the function op in this step
StepOf(p, op) ==
    \/ Starts(p) /\ CallOf(p).op = op
    \/ pc[p] \notin {"idle", "call"} /\ call[p].op = op
         /\ (pc'[p] # pc[p] \/ call'[p] # call[p])

\* the text d names a date with a record: a row keyed by it (SQLite), a row
\* whose date column holds the formatted date (spreadsheet)
SheetKey(d) == IF ParseDate(d).ok THEN FormatDate(ParseDate(d)) ELSE d

HasRecord(rows, ws, d) ==
    IF backend = "sqlite" THEN \E r \in rows : r.date = d
    ELSE \E i \in 1..Len(ws) : ws[i].A = SheetKey(d)

\* the stored shifts as (date, start, end, revenue, tips), revenue and tips
\* as texts on the spreadsheet and as numbers in SQLite
Shifts(rows, ws) ==
    IF backend = "sqlite" THEN rows
    ELSE {DbRow(ws[i].A, ws[i].B, ws[i].C, ws[i].D, ws[i].E) : i \in 1..Len(ws)}

\* hours * 220 + tips + revenue * 0.015 on numbers
CanonicalProfit(minutes, revenue, tips) ==
    minutes * HOURLY_RATE * (ProfitUnit \div 60) + tips * ProfitUnit
    + revenue * REVENUE_PER_MILLE * (ProfitUnit \div 1000)

(* C1: upsert_shift on a date that has a record sets the record's start and
   end to the new values and keeps its revenue and tips, on both backends.
   SQLite: the record after a successful add_shift carries the revenue and
   tips it had before.  Spreadsheet: no storage step of add_shift changes a
   revenue or tips cell, and the update step writes the new start and end. *)
C1_UpsertKeepsRevenueTips ==
    [][ /\ (ReturnStep /\ backend = "sqlite" /\ last'.op = "add_shift" /\ last'.ret.b)
           => \A r \in db : r.date = last'.date
                => DbRow(r.date, last'.a, last'.b, r.revenue, r.tips) \in db'
        /\ \A p \in Procs : (backend = "sheets" /\ StepOf(p, "add_shift"))
           => /\ \A i \in 1..Len(sheet) :
                    sheet'[i].D = sheet[i].D /\ sheet'[i].E = sheet[i].E
              /\ pc[p] = "as_update_BC" /\ pc'[p] = "as_cell_D"
                    => sheet'[call[p].row].B = call[p].a
                       /\ sheet'[call[p].row].C = call[p].b ]_vars

(* C3: the store holds at most one shift record per date, in every reachable
   state of either backend. *)
C3_AtMostOneShiftPerDate ==
    /\ \A r1, r2 \in db : r1.date = r2.date => r1 = r2
    /\ \A i, j \in 1..Len(sheet) : sheet[i].A = sheet[j].A => i = j

\* the arguments of the store function p takes a step of
ArgsOf(p) == IF Starts(p) THEN CallOf(p) ELSE call[p]

\* no other process is inside a store function
Quiet(p) == \A q \in Procs \ {p} : pc[q] = "idle"

Uninitialised == backend = "sheets" /\ ~initialized

(* C2: compute_profit returns hours(start,end)*220 + tips + revenue*0.015 of
   the record's stored start, end, revenue and tips for a date with a record,
   and absent for a date without one, on both backends.  Checked at the
   return of every get_profit in which the storage did not fail; on the
   spreadsheet, of the row the call found, when no other call runs and the
   revenue and tips cells hold numbers. *)
C2_ProfitIsCanonical ==
    [][ (ReturnStep /\ last'.op = "get_profit" /\ ~last'.failed /\ ~Uninitialised)
        => /\ HasRecord(db', sheet', last'.date) <=> last'.ret.b
           /\ backend = "sqlite"
                => \A r \in db' : r.date = last'.date
                     => last'.ret.v =
                          << CanonicalProfit(CalculateMinutes(r.start_time, r.end_time),
                                             r.revenue, r.tips) >>
           /\ (backend = "sheets" /\ last'.ret.b /\ Quiet(last'.proc))
                => LET r == sheet'[call[last'.proc].row]
                   IN  (ToNumber(r.D).ok /\ ToNumber(r.E).ok)
                       => last'.ret.v =
                            << CanonicalProfit(CalculateMinutes(r.B, r.C),
                                               ToNumber(r.D).val, ToNumber(r.E).val) >>
      ]_vars

(* C5: update_field on a date without a record returns failure within its
   first step and leaves the whole store as it was, on both backends. *)
C5_UpdateMissingDateFails ==
    [][ \A p \in Procs :
          (Starts(p) /\ CallOf(p).op = "update_value"
             /\ ~HasRecord(db, sheet, CallOf(p).date))
          => /\ pc'[p] = "idle" /\ ~last'.ret.b
             /\ db' = db /\ sheet' = sheet ]_vars

NumericField(f) == Lower(f) \in {"vyruchka", "chaj"}

(* C6: update_field on an existing date with field revenue or tips and a
   value that is no number changes no stored cell or field in any of its
   steps and returns failure, on both backends. *)
C6_MalformedAmountRejected ==
    [][ \A p \in Procs :
          (StepOf(p, "update_value") /\ NumericField(ArgsOf(p).a)
             /\ ~ParseFloat(ArgsOf(p).b).ok
             /\ HasRecord(db, sheet, ArgsOf(p).date))
          => /\ db' = db /\ sheet' = sheet
             /\ pc'[p] = "idle" => ~last'.ret.b ]_vars

(* C7: every stored shift has revenue >= 0 and tips >= 0, and an update_field
   call with a negative revenue or tips value is rejected. *)
C7_RevenueTipsNonNegative ==
    /\ \A r \in db : r.revenue >= 0 /\ r.tips >= 0
    /\ \A i \in 1..Len(sheet) :
          /\ ParseFloat(sheet[i].D).ok => ParseFloat(sheet[i].D).val >= 0
          /\ ParseFloat(sheet[i].E).ok => ParseFloat(sheet[i].E).val >= 0
    /\ (last.op = "update_value" /\ NumericField(last.a)
          /\ ParseFloat(last.b).ok /\ ParseFloat(last.b).val < 0)
       => ~last.ret.b

\* GoogleSheetsManager.add_shift run alone (no other call in between, no
\* storage failure) on the worksheet ws
SheetAddShiftAlone(ws, d, s, e) ==
    LET c == NewCall("add_shift", "", d, s, e)
    IN  IF ~initialized \/ ~AsValid(c) THEN ws
        ELSE LET c2 == AsLocate(ws, c)
             IN  IF c2.row = 0 THEN AsAppend(ws, c2)
                 ELSE LET ws2 == AsUpdateBC(ws, c2)
                          c3 == [c2 EXCEPT !.vD = ws2[c2.row].D, !.vE = ws2[c2.row].E]
                      IN  AsUpdateG(ws2, c3)

\* the store after upsert_shift(d, s, e) run alone on the backend in use
AfterAddShift(store, d, s, e) ==
    IF backend = "sqlite"
    THEN [rows |-> DbAddShift(store.rows, d, s, e, FALSE).rows, ws |-> store.ws]
    ELSE [rows |-> store.rows, ws |-> SheetAddShiftAlone(store.ws, d, s, e)]

(* C8: upsert_shift is idempotent: from every reachable store state, calling
   upsert_shift(d, s, e) twice in a row leaves the same stored shifts (date,
   start, end, revenue, tips) as calling it once. *)
C8_UpsertIdempotent ==
    \A d \in ApiDates, se \in ApiShifts :
        LET once == AfterAddShift([rows |-> db, ws |-> sheet], d, se[1], se[2])
            twice == AfterAddShift(once, d, se[1], se[2])
        IN  Shifts(twice.rows, twice.ws) = Shifts(once.rows, once.ws)
            /\ Len(twice.ws) = Len(once.ws)

\* what check_shift_exists(d) returns when the storage does not fail
Exists(rows, ws, d) ==
    IF backend = "sqlite" THEN DbCheckShiftExists(rows, d, FALSE).b
    ELSE initialized /\ ParseDate(d).ok /\ Find(ws, FormatDate(ParseDate(d))) > 0

UpsertSucceeds(d) ==
    ReturnStep /\ last'.op = "add_shift" /\ last'.ret.b /\ last'.date = d

(* C9: for every date d, shift_exists(d) becomes true only by a successful
   upsert_shift(d, ...), is true right after one, and once true stays true. *)
C9_ExistsFollowsUpsert ==
    [][ \A d \in ApiDates :
          /\ (~Exists(db, sheet, d) /\ Exists(db', sheet', d)) => UpsertSucceeds(d)
          /\ UpsertSucceeds(d) => Exists(db', sheet', d)
          /\ Exists(db, sheet, d) => Exists(db', sheet', d) ]_vars

\* the negative result of each operation of the store interface
Negative(op) ==
    CASE op \in {"add_shift", "update_value", "check_shift_exists"} -> False
      [] op \in {"get_profit", "get_statistics"} -> None
      [] op = "get_shifts_in_period" -> EmptyList
      [] OTHER -> False

(* C10: when the storage fails during an operation of the store interface,
   or the spreadsheet backend is not initialised, the operation returns its
   negative result (False, None or the empty list) and no exception leaves
   the operation. *)
C10_FailuresBecomeNegativeResults ==
    /\ ~last.ret.raised
    /\ (last.op # "" /\ (last.failed \/ Uninitialised)) => last.ret = Negative(last.op)

\* a storage failure in get_profit for a date that has a record
C10_Witness ==
    last.op = "get_profit" /\ last.failed /\ HasRecord(db, sheet, last.date)

\* in this step the add_shift that process_end of session p called replaces
\* the record that exists for the date d: the INSERT OR REPLACE onto a row of
\* that date (SQLite), the update of the start and end cells of the row found
\* (spreadsheet)
Replaces(p, d) ==
    \/ /\ backend = "sqlite"
       /\ state[p] = "waiting_for_end" /\ Starts(p)
       /\ last'.op = "add_shift" /\ last'.ret.b /\ last'.date = d
       /\ \E r \in db : r.date = d
    \/ /\ backend = "sheets"
       /\ pc[p] = "as_update_BC" /\ pc'[p] = "as_cell_D"
       /\ call[p].cont = "process_end" /\ call[p].date = d

(* C4: whenever the persist step of the add-shift dialogue replaces a record
   that exists for the date at that moment, the same run of the dialogue has
   received an affirmative overwrite confirmation for that date before; one
   session or several interleaved. *)
C4_ReplaceOnlyAfterConfirmation ==
    [][ \A p \in Procs, d \in Dates : Replaces(p, d) => confirmed[p] = d ]_vars

(* C13: for all valid HH:MM pairs, hours(start, end) is end - start when
   end >= start (0 when equal) and (end + 24h) - start when end < start, so
   it lies in [0, 24) hours.  Hours are counted in minutes. *)
C13_HoursWrapOvernight ==
    calc.done =>
        LET start == ParseTime(calc.start)
            end == ParseTime(calc.end)
        IN  /\ end >= start => calc.minutes = end - start
            /\ end < start => calc.minutes = (end + 24 * 60) - start
            /\ calc.minutes >= 0 /\ calc.minutes < 24 * 60

\* an overnight shift has been measured
C13_Witness ==
    calc.done /\ ParseTime(calc.end) < ParseTime(calc.start) /\ calc.minutes > 0

(* C14: for valid start and end and non-negative revenue and tips,
   profit(start, end, revenue, tips) is hours * 220 + tips + revenue * 0.015
   with an empty revenue or tips counting as 0; it is linear in tips and in
   revenue, non-decreasing in hours, and 22:00-06:00 with tips 500 and
   revenue 1000 gives 2275. *)
C14_ProfitFormula ==
    calc.done =>
        /\ calc.profit = CanonicalProfit(calc.minutes, ToNumber(calc.revenue).val,
                                         ToNumber(calc.tips).val)
        /\ \A ti \in CalcAmounts :
              CalculateProfit(calc.start, calc.end, calc.revenue, ti) - calc.profit
                 = (ToNumber(ti).val - ToNumber(calc.tips).val) * ProfitUnit
        /\ \A r \in CalcAmounts :
              CalculateProfit(calc.start, calc.end, r, calc.tips) - calc.profit
                 = (ToNumber(r).val - ToNumber(calc.revenue).val)
                      * REVENUE_PER_MILLE * (ProfitUnit \div 1000)
        /\ \A s \in CalcTimes, e \in CalcTimes :
              CalculateMinutes(s, e) >= calc.minutes
                 => CalculateProfit(s, e, calc.revenue, calc.tips) >= calc.profit
        /\ (calc.start = "22:00" /\ calc.end = "06:00" /\ calc.revenue = "1000"
              /\ calc.tips = "500") => calc.profit = 2275 * ProfitUnit

\* the calculator has run on the example of the specification
C14_Witness ==
    /\ calc.done /\ calc.profit = 2275 * ProfitUnit
    /\ calc.start = "22:00" /\ calc.end = "06:00"
    /\ calc.revenue = "1000" /\ calc.tips = "500"

\* the calendar day of a DD.MM.YYYY text as a number that orders the days
CalendarDay(d) ==
    LET day == ParseDate(d) IN day.y * 10000 + day.m * 100 + day.d

\* the stored shifts whose calendar date lies in the inclusive range
InPeriod(rows, start_date, end_date) ==
    {r \in rows : /\ CalendarDay(start_date) <= CalendarDay(r.date)
                  /\ CalendarDay(r.date) <= CalendarDay(end_date)}

(* C11: list_shifts(start_date, end_date) returns exactly the stored shifts
   whose calendar date d has start_date <= d <= end_date, in ascending
   calendar order, also across months and years, and the empty sequence
   when none match.  Checked on the result of every get_shifts_in_period
   call in which the storage did not fail. *)
C11_ListShiftsByCalendarDate ==
    (last.op = "get_shifts_in_period" /\ ~last.failed)
    => LET found == last.ret.v
           expected == InPeriod(db, last.date, last.a)
       IN  /\ Len(found) = Cardinality(expected)
           /\ {DbRow(found[i].date, found[i].start, found[i].end,
                     found[i].revenue, found[i].tips) : i \in 1..Len(found)}
                 = expected
           /\ \A i, j \in 1..Len(found) :
                 i < j => CalendarDay(found[i].date) < CalendarDay(found[j].date)

(* C12: aggregate_statistics(start_date, end_date) returns absent when no
   stored shift has a calendar date in the inclusive range; otherwise, with
   N such shifts, shift_count = N, total_revenue and total_tips are the sums
   over those shifts, avg_revenue and avg_tips the sums divided by N, and
   total_profit = total_revenue + total_tips.  Checked on the result of
   every get_statistics call in which the storage did not fail. *)
C12_StatisticsOverCalendarRange ==
    (last.op = "get_statistics" /\ ~last.failed)
    => LET expected == InPeriod(db, last.date, last.a)
           n == Cardinality(expected)
       IN  IF n = 0 THEN last.ret = None
           ELSE /\ last.ret.b
                /\ LET stats == last.ret.v[1]
                   IN  /\ stats.shift_count = n
                       /\ stats.total_revenue = SumOf(expected, "revenue")
                       /\ stats.total_tips = SumOf(expected, "tips")
                       /\ stats.avg_revenue
                             = [num |-> SumOf(expected, "revenue"), den |-> n]
                       /\ stats.avg_tips = [num |-> SumOf(expected, "tips"), den |-> n]
                       /\ stats.total_profit = stats.total_revenue + stats.total_tips

(* C15: on the spreadsheet backend, after every successful upsert_shift or
   update_field on a date, with no other operation running, the profit
   column G of the date's row holds the canonical profit of the row's stored
   start, end, revenue and tips, and the hours column F holds no profit
   value (the start, end, revenue and tips cells hold texts only). *)
C15_ProfitInProfitColumn ==
    [][ (/\ ReturnStep /\ backend = "sheets" /\ last'.ret.b
         /\ last'.op \in {"add_shift", "update_value"}
         /\ Quiet(last'.proc))
        => \A i \in 1..Len(sheet') :
              sheet'[i].A = SheetKey(last'.date)
              => /\ sheet'[i].F = << >>
                 /\ (ToNumber(sheet'[i].D).ok /\ ToNumber(sheet'[i].E).ok)
                    => sheet'[i].G =
                         << CanonicalProfit(
                               CalculateMinutes(sheet'[i].B, sheet'[i].C),
                               ToNumber(sheet'[i].D).val,
                               ToNumber(sheet'[i].E).val) >> ]_vars

\* the session p is idle with no accumulated fields and the store is as before
AbortsToIdle(p) ==
    /\ state'[p] = "" /\ data'[p] = NoData
    /\ db' = db /\ sheet' = sheet

\* the messages that are no valid date, and those that are no valid time
NotADate == {text \in Messages : ~ParseDate(CleanUserInput(text)).ok}
NotATime == {text \in Messages : ParseTime(CleanUserInput(text)) < 0}

(* C18: in the add-shift pipeline an input that is no valid DD.MM.YYYY date
   at the date step, or no valid HH:MM time at the start or end step, moves
   the session to idle and leaves the store unchanged; add_shift is called
   only from the end step, with a valid date, a valid start and a valid end
   that the session holds from the date and start steps. *)
C18_MalformedInputAborts ==
    [][ \A p \in Procs :
          /\ \A text \in NotADate :
                (\E fail \in BOOLEAN : process_date(p, text, fail)) => AbortsToIdle(p)
          /\ \A text \in NotATime :
                /\ process_start(p, text) => AbortsToIdle(p)
                /\ (\E fail \in BOOLEAN : process_end(p, text, fail)) => AbortsToIdle(p)
          /\ (Starts(p) /\ CallOf(p).op = "add_shift")
                => /\ state[p] = "waiting_for_end"
                   /\ CallOf(p).date = data[p].date /\ CallOf(p).a = data[p].start
                   /\ ParseDate(CallOf(p).date).ok
                   /\ ParseTime(CallOf(p).a) >= 0 /\ ParseTime(CallOf(p).b) >= 0
      ]_vars

\* a session was sent back to idle by a malformed time while a shift is stored
C18_Witness ==
    \E p \in Procs :
        /\ out[p] = "bad_time" /\ state[p] = "" /\ data[p] = NoData
        /\ HasRecord(db, sheet, "01.03.2024")

\* the affirmative and negative answers in both cases of the letters
AffirmativeTexts == {"da", "DA", "yes", "YES", "y", "Y", "d", "D"}
NegativeTexts == {"net", "NET", "no", "NO", "n", "N"}

(* C19: at the overwrite-confirmation step an input whose first token is in
   neither vocabulary (letter case ignored) leaves the session in that step
   with the date and the store unchanged; an affirmative token moves to the
   start-time step keeping the date; a negative token moves to idle with the
   store unchanged. *)
C19_OverwriteAnswer ==
    [][ \A p \in Procs, text \in Messages :
          process_overwrite_confirm(p, text)
          => /\ db' = db /\ sheet' = sheet
             /\ CleanUserInput(text) \in AffirmativeTexts
                  => /\ state'[p] = "waiting_for_start"
                     /\ data'[p].date = data[p].date
             /\ CleanUserInput(text) \in NegativeTexts => state'[p] = ""
             /\ CleanUserInput(text) \notin (AffirmativeTexts \cup NegativeTexts)
                  => /\ state'[p] = "waiting_for_overwrite_confirm"
                     /\ data'[p] = data[p] ]_vars

\* an upper-case affirmative answer has moved a session to the start step
C19_Witness ==
    \E p \in Procs :
        /\ confirmed[p] = "01.03.2024" /\ state[p] = "waiting_for_start"
        /\ data[p].date = "01.03.2024"

\* the replies that end a pipeline: success, storage failure, validation
\* failure, not found, cancellation
TerminalOutcomes ==
    {"shift_added", "add_error", "bad_date", "bad_time", "cancelled", "not_found",
     "bad_number", "updated", "update_error", "bad_field", "not_yet",
     "no_profit_data", "profit_low", "profit_middle", "profit_high", "no_data",
     "statistics", "export"}

(* C16: every terminal outcome of every pipeline leaves the session without a
   current step and without accumulated fields: in every reachable state a
   session whose last reply is a terminal outcome is idle with empty data,
   and an idle session holds no fields. *)
C16_TerminalOutcomeClearsSession ==
    \A p \in Procs :
        /\ out[p] \in TerminalOutcomes => state[p] = "" /\ data[p] = NoData
        /\ state[p] = "" => data[p] = NoData

\* a storage failure at the amount step of the revenue pipeline, which held
\* the date, has ended the pipeline
C16_Witness ==
    \E p \in Procs :
        /\ out[p] = "update_error" /\ last.proc = p /\ last.failed
        /\ last.a = "vyruchka"
        /\ state[p] = "" /\ data[p] = NoData

\* the pipeline of an FSM state, "" for none
PipelineOf(st) ==
    CASE st \in {"waiting_for_date", "waiting_for_overwrite_confirm",
                 "waiting_for_start", "waiting_for_end"} -> "add_shift"
      [] st \in {"waiting_for_revenue_date", "waiting_for_revenue"} -> "revenue"
      [] st \in {"waiting_for_tips_date", "waiting_for_tips"} -> "tips"
      [] st \in {"waiting_for_edit_date", "waiting_for_edit_field",
                 "waiting_for_edit_value"} -> "edit"
      [] st = "waiting_for_profit_date" -> "profit"
      [] st \in {"waiting_for_stats_start", "waiting_for_stats_end"} -> "stats"
      [] st \in {"waiting_for_export_start", "waiting_for_export_end"} -> "export"
      [] OTHER -> ""

\* the fields a pipeline accumulates
FieldsOf(pipeline) ==
    CASE pipeline = "add_shift" -> {"date", "start"}
      [] pipeline = "revenue" -> {"revenue_date"}
      [] pipeline = "tips" -> {"tips_date"}
      [] pipeline = "edit" -> {"edit_date", "edit_field"}
      [] pipeline = "stats" -> {"stats_start"}
      [] pipeline = "export" -> {"export_start"}
      [] OTHER -> {}

\* the command messages and the pipeline each starts, "" for none
Commands ==
    {"/start", "/myid", "/help", "/add_shift", "/revenue", "/tips", "/edit",
     "/profit", "/stats", "/export"}

StartedBy(text) ==
    CASE text = "/add_shift" -> "add_shift"
      [] text = "/revenue" -> "revenue"
      [] text = "/tips" -> "tips"
      [] text = "/edit" -> "edit"
      [] text = "/profit" -> "profit"
      [] text = "/stats" -> "stats"
      [] text = "/export" -> "export"
      [] OTHER -> ""

\* the session p handles the command text in this step
CommandStep(p, text) ==
    \/ start_cmd(p, text) \/ show_my_id(p, text) \/ help_cmd(p, text)
    \/ add_shift_start(p, text) \/ revenue_start(p, text) \/ tips_start(p, text)
    \/ edit_start(p, text) \/ profit_start(p, text) \/ stats_start(p, text)
    \/ export_start(p, text)

(* C17: when a command message arrives while the session is inside a
   different pipeline, after the message is handled the session's step is no
   step of the earlier pipeline and its data holds none of the earlier
   pipeline's fields. *)
C17_CommandLeavesNothingBehind ==
    [][ \A p \in Procs, text \in Commands :
          (/\ CommandStep(p, text)
           /\ PipelineOf(state[p]) # ""
           /\ StartedBy(text) # PipelineOf(state[p]))
          => /\ PipelineOf(state'[p]) # PipelineOf(state[p])
             /\ \A k \in FieldsOf(PipelineOf(state[p])) : data'[p][k] = Absent ]_vars

(* C20: in the revenue and tips pipelines update_value is called only for a
   date that has a record and with an amount that parses as a number; a date
   without a record at the date step, or a malformed amount at the amount
   step, moves the session to idle and leaves the store unchanged. *)
C20_UpdateOnlyForRecordAndNumber ==
    [][ \A p \in Procs :
          /\ (/\ Starts(p) /\ CallOf(p).op = "update_value"
              /\ state[p] \in {"waiting_for_revenue", "waiting_for_tips"})
                => /\ HasRecord(db, sheet, CallOf(p).date)
                   /\ ParseFloat(CallOf(p).b).ok
          /\ state[p] \in {"waiting_for_revenue_date", "waiting_for_tips_date"}
                => \A text \in Texts :
                      (/\ ~HasRecord(db, sheet, CleanUserInput(text))
                       /\ \E fail \in BOOLEAN : \/ process_revenue_date(p, text, fail)
                                                \/ process_tips_date(p, text, fail))
                      => AbortsToIdle(p)
          /\ state[p] \in {"waiting_for_revenue", "waiting_for_tips"}
                => \A text \in Texts :
                      (/\ ~ParseFloat(CleanUserInput(text)).ok
                       /\ \E fail \in BOOLEAN : \/ process_revenue(p, text, fail)
                                                \/ process_tips(p, text, fail))
                      => AbortsToIdle(p)
      ]_vars

\* the field names the edit pipeline takes, and some it does not
EditableFields == {"chaj", "nachalo", "konec", "vyruchka"}
OtherFields == {"chasy", "date", "net"}

(* C21: at the field-name step of the edit pipeline a name outside
   {nachalo, konec, vyruchka, chaj} (letter case ignored) moves the session
   to idle, calls no store function and leaves the store unchanged, and a
   name of the set moves on to the value step; the value step calls
   update_value with a name of the set only; and update_value of the SQLite
   backend returns False and changes no row for every other field name. *)
C21_UnknownFieldRejected ==
    [][ \A p \in Procs :
          /\ state[p] = "waiting_for_edit_field"
                => \A text \in Texts :
                      process_edit_field(p, text)
                      => IF Lower(CleanUserInput(text)) \in EditableFields
                         THEN /\ state'[p] = "waiting_for_edit_value"
                              /\ data'[p].edit_field = Lower(CleanUserInput(text))
                              /\ data'[p].edit_date = data[p].edit_date
                              /\ db' = db /\ sheet' = sheet
                         ELSE /\ AbortsToIdle(p)
                              /\ pc'[p] = "idle" /\ last' = last
          /\ (/\ Starts(p) /\ CallOf(p).op = "update_value"
              /\ state[p] = "waiting_for_edit_value")
                => CallOf(p).a \in EditableFields
          /\ \A f \in OtherFields, fail \in BOOLEAN :
                DbUpdateValue(db, "01.03.2024", f, "1000", fail)
                    = [ret |-> False, rows |-> db]
      ]_vars

\* the edit pipeline of a date with a record has been ended by a field name
\* outside the set
C21_Witness ==
    \E p \in Procs :
        /\ out[p] = "bad_field" /\ state[p] = "" /\ data[p] = NoData
        /\ HasRecord(db, sheet, "01.03.2024")

\* the three encouragement messages of the profit query
TierMessages == {"profit_low", "profit_middle", "profit_high"}

(* C22: in the profit pipeline a text that is no valid date, a date after
   today, or a date without a record ends the pipeline in idle with the store
   unchanged and no tier message; get_profit is called only for a valid date
   that is not after today and has a record, and a tier message is sent only
   on the return of get_profit for a date with a record. *)
C22_ProfitChecksInOrder ==
    [][ \A p \in Procs :
          /\ (state[p] = "waiting_for_profit_date" /\ pc[p] = "idle")
                => \A text \in ProfitTexts :
                      (\E fail \in BOOLEAN : process_profit_date(p, text, fail))
                      => LET clean_date == CleanUserInput(text)
                             day == ParseDate(clean_date)
                         IN  (\/ ~day.ok
                              \/ Later(day, Today)
                              \/ ~HasRecord(db, sheet, clean_date))
                             => /\ AbortsToIdle(p)
                                /\ pc'[p] = "idle"
                                /\ out'[p] \notin TierMessages
          /\ (pc'[p] # "idle" /\ call'[p].op = "get_profit")
                => /\ ParseDate(call'[p].date).ok
                   /\ ~Later(ParseDate(call'[p].date), Today)
                   /\ HasRecord(db', sheet', call'[p].date)
          /\ (out'[p] \in TierMessages /\ last' # last)
                => /\ last'.op = "get_profit" /\ last'.proc = p
                   /\ HasRecord(db, sheet, last'.date)
      ]_vars

(* C23: when get_profit returns a profit to the profit pipeline exactly one
   tier message is sent: the low one iff the profit is below 4000, the middle
   one iff it is from 4000 to 6000 with both bounds, the high one iff it is
   above 6000. *)
C23_TierByThreshold ==
    [][ \A p \in Procs :
          (/\ last' # last /\ last'.op = "get_profit" /\ last'.proc = p
           /\ last'.ret.b)
          => LET profit_float == last'.ret.v[1]
             IN  /\ out'[p] \in TierMessages
                 /\ out'[p] = "profit_low" <=> profit_float < 4000 * ProfitUnit
                 /\ out'[p] = "profit_middle"
                       <=> /\ 4000 * ProfitUnit <= profit_float
                           /\ profit_float <= 6000 * ProfitUnit
                 /\ out'[p] = "profit_high" <=> profit_float > 6000 * ProfitUnit
      ]_vars

\* a profit of exactly 6000 has been answered with the middle message
C23_Witness ==
    \E p \in Procs :
        /\ out[p] = "profit_middle" /\ state[p] = ""
        /\ last.op = "get_profit" /\ last.proc = p
        /\ last.ret.b /\ last.ret.v = << 6000 * ProfitUnit >>

(* C24: /stats and /export start their pipeline exactly when the store
   functions are bound to SQLite, the fallback after the spreadsheet module
   failed to load included; when they are bound to the spreadsheet the reply
   is "unavailable", the step and the fields stay as they are and no store
   function is called. *)
C24_ReportsFollowBackendInUse ==
    [][ \A p \in Procs :
          /\ stats_start(p, "/stats")
                => IF backend = "sqlite"
                   THEN state'[p] = "waiting_for_stats_start"
                   ELSE /\ out'[p] = "unavailable"
                        /\ state'[p] = state[p] /\ data'[p] = data[p]
                        /\ pc'[p] = "idle" /\ last' = last
          /\ export_start(p, "/export")
                => IF backend = "sqlite"
                   THEN state'[p] = "waiting_for_export_start"
                   ELSE /\ out'[p] = "unavailable"
                        /\ state'[p] = state[p] /\ data'[p] = data[p]
                        /\ pc'[p] = "idle" /\ last' = last
      ]_vars

\* the number of characters of a piece
Size(piece) == piece.to - piece.from

(* C25: a report text of at most 4000 characters is answered as one message
   that is the whole text; a longer one as consecutive pieces, each of 1 to
   4000 characters, every piece but the last of exactly 4000, the first
   starting at the first character, each next one where the one before ended
   and the last ending at the end of the text. *)
C25_ExportInChunks ==
    /\ \A k \in 1..Len(calc.sent) :
          /\ Size(calc.sent[k]) >= 1 /\ Size(calc.sent[k]) <= CHUNK
          /\ calc.sent[k].from = IF k = 1 THEN 0 ELSE calc.sent[k - 1].to
    /\ calc.done
          => /\ calc.sent[Len(calc.sent)].to = calc.len
             /\ \A k \in 1..(Len(calc.sent) - 1) : Size(calc.sent[k]) = CHUNK
             /\ calc.len <= CHUNK => Len(calc.sent) = 1

\* a text of 8001 characters has been answered in three pieces, the last of
\* one character
C25_Witness ==
    /\ calc.done /\ calc.len = 2 * CHUNK + 1
    /\ Len(calc.sent) = 3 /\ Size(calc.sent[3]) = 1

\* the steps that follow a step in its pipeline
NextSteps(st) ==
    CASE st = "waiting_for_date" -> {"waiting_for_overwrite_confirm", "waiting_for_start"}
      [] st = "waiting_for_overwrite_confirm" -> {"waiting_for_start"}
      [] st = "waiting_for_start" -> {"waiting_for_end"}
      [] st = "waiting_for_revenue_date" -> {"waiting_for_revenue"}
      [] st = "waiting_for_tips_date" -> {"waiting_for_tips"}
      [] st = "waiting_for_edit_date" -> {"waiting_for_edit_field"}
      [] st = "waiting_for_edit_field" -> {"waiting_for_edit_value"}
      [] st = "waiting_for_stats_start" -> {"waiting_for_stats_end"}
      [] st = "waiting_for_export_start" -> {"waiting_for_export_end"}
      [] OTHER -> {}

\* the handler of a message of p ends in this step
HandlerDone(p) == pc'[p] = "idle" /\ (nops' = nops + 1 \/ pc[p] # "idle")

(* C26: a message that reaches a session inside a pipeline either moves it
   to a following step of the same pipeline, or ends the pipeline in idle, or
   leaves it in the same step, the last at the overwrite confirmation only
   (so a pipeline is over after at most four messages besides the repeated
   answers at the overwrite confirmation). *)
C26_StepAdvancesEndsOrReprompts ==
    [][ \A p \in Procs :
          state[p] # ""
          => /\ state'[p] # state[p] => state'[p] \in NextSteps(state[p]) \cup {""}
             /\ (HandlerDone(p) /\ state'[p] = state[p])
                   => state[p] = "waiting_for_overwrite_confirm" ]_vars

(* C27: on SQLite, of two concurrent add_shift calls for one date each
   returns in the step that runs it, whatever the order, leaving the other
   call as it was; no date ever has two records; and when the second of them
   has returned and at least one returned True, the date has exactly one
   record, whose start and end are the pair of arguments of one call that
   returned True, never the start of one call with the end of the other. *)
C27_ConcurrentUpsertsConverge ==
    [][ \A p \in Procs :
          (pc[p] = "call" /\ (pc'[p] # pc[p] \/ last' # last) /\ last'.proc = p)
          => /\ pc'[p] = "idle" /\ last'.op = "add_shift"
             /\ \A q \in Procs \ {p} : pc'[q] = pc[q] /\ call'[q] = call[q]
             /\ \A r1, r2 \in db' : r1.date = r2.date => r1 = r2
             /\ (/\ \A q \in Procs \ {p} : pc[q] = "idle"
                 /\ last.ret.b \/ last'.ret.b)
                   => \E r \in db' :
                         /\ r.date = call[p].date
                         /\ << r.start_time, r.end_time >>
                              \in {<< l.a, l.b >> : l \in {l \in {last, last'} : l.ret.b}}
      ]_vars

\* both calls have returned True and the date has one record
C27_Witness ==
    /\ \A p \in Procs : pc[p] = "idle" /\ out[p] = "shift_added"
    /\ Cardinality({r \in db : r.date = last.date}) = 1
    /\ \E r \in db : r.date = last.date /\ r.start_time = last.a /\ r.end_time = last.b

(* C28: a run of a reminder job, in the morning or in the evening, leaves
   every stored shift and every session's step and accumulated fields as
   they were, and sends its message if and only if the store holds a shift
   for today's date. *)
C28_ReminderOnlyReads ==
    [][ calc' # calc
        => /\ db' = db /\ sheet' = sheet
           /\ state' = state /\ data' = data
           /\ calc'.sent <=> HasRecord(db, sheet, calc'.today) ]_vars

(* C29: in every reachable state the start and the end of every stored shift
   are valid HH:MM times of the 24-hour day, whatever add-shift and edit
   pipelines have run. *)
C29_StoredTimesValid ==
    \A shift \in Shifts(db, sheet) :
        ParseTime(shift.start_time) >= 0 /\ ParseTime(shift.end_time) >= 0

\* the accumulated fields the handler of a step reads
FieldsRead(st) ==
    CASE st = "waiting_for_end" -> {"date", "start"}
      [] st \in {"waiting_for_overwrite_confirm", "waiting_for_start"} -> {"date"}
      [] st = "waiting_for_revenue" -> {"revenue_date"}
      [] st = "waiting_for_tips" -> {"tips_date"}
      [] st = "waiting_for_edit_field" -> {"edit_date"}
      [] st = "waiting_for_edit_value" -> {"edit_date", "edit_field"}
      [] st = "waiting_for_stats_end" -> {"stats_start"}
      [] st = "waiting_for_export_end" -> {"export_start"}
      [] OTHER -> {}

(* C30: in every reachable state the data of a session holds every field the
   handler of its current step reads: date and start at waiting_for_end, date
   at waiting_for_overwrite_confirm and waiting_for_start, revenue_date at
   waiting_for_revenue, tips_date at waiting_for_tips, edit_date at
   waiting_for_edit_field, edit_date and edit_field at waiting_for_edit_value,
   stats_start at waiting_for_stats_end, export_start at
   waiting_for_export_end. *)
C30_FieldsPresentAtStep ==
    \A p \in Procs : \A k \in FieldsRead(state[p]) : data[p][k] # Absent

\* a session is at the end-time step and holds the date and the start it gave
C30_Witness ==
    \E p \in Procs :
        /\ state[p] = "waiting_for_end"
        /\ data[p].date = "01.03.2024" /\ data[p].start = "22:00"

\* the columns of a shift that update_value can set
ShiftColumns == {"start_time", "end_time", "revenue", "tips"}

(* C31: an update_value(d, f, v) that returns True on SQLite sets the column
   of f in the record of date d to v (the number v for revenue and tips) and
   leaves the other three of start, end, revenue and tips of that record and
   every record of another date as they were; the table has the same dates
   before and after. *)
C31_UpdateTouchesOneField ==
    [][ (/\ backend = "sqlite"
         /\ last' # last /\ last'.op = "update_value" /\ last'.ret.b)
        => LET d == last'.date
               column == field_mapping(Lower(last'.a))
               value == IF column \in {"revenue", "tips"}
                        THEN ParseFloat(last'.b).val ELSE last'.b
           IN  /\ column \in ShiftColumns
               /\ {r.date : r \in db'} = {r.date : r \in db}
               /\ Cardinality(db') = Cardinality(db)
               /\ \A r \in db : r.date # d => r \in db'
               /\ \E r \in db, r2 \in db' :
                     /\ r.date = d /\ r2.date = d
                     /\ r2[column] = value
                     /\ \A c \in ShiftColumns \ {column} : r2[c] = r[c]
      ]_vars

\* a revenue has been set for one of two stored shifts
C31_Witness ==
    /\ backend = "sqlite"
    /\ last.op = "update_value" /\ last.ret.b /\ last.a = "vyruchka"
    /\ \E r1, r2 \in db :
          /\ r1.date = last.date /\ r1.revenue = ParseFloat(last.b).val
          /\ r1.revenue # 0
          /\ r2.date # last.date /\ r2.revenue = 0

=============================================================================
